---- MODULE Spec2Model ----
(***************************************************************************)
(* A model of pyderive's dataclass pipeline: field parsing and flattening  *)
(* (parse.py), code synthesis (compile.py) and the decorator that drives   *)
(* them (dataclass.py), together with the Python object protocol the       *)
(* generated functions run under (attribute lookup along the MRO, call     *)
(* argument binding, rich comparison, hashing).                            *)
(*                                                                         *)
(* Generated functions are modelled as the data their source text closes   *)
(* over (parameter lists, body statements, tuples of names); the instance  *)
(* operations interpret that data the way Python executes the text.        *)
(***************************************************************************)
EXTENDS Integers, Sequences, FiniteSets, TLC

VARIABLES
    annos,      \* class -> its own __annotations__, in declaration order
    cattrs,     \* class -> its own class attributes that are field defaults
    user,       \* class -> the special methods its body defines
    cdict,      \* class -> its own __dict__ entries for the special methods
    derive,     \* class -> heap index of its own __derive__ (0: not set)
    heap,       \* the ClassStruct objects created so far
    COMPILED,   \* parse.COMPILED
    dataf,      \* class -> its own __derive_datafields__ (FIELD_ATTR)
    gen,        \* class -> what the functions generated for it close over
    status,     \* class -> outcome of the decorator call and its settings
    objs,       \* the instances created so far
    calls,      \* number of default-factory calls made so far
    last,       \* the last operation performed and its outcome
    vparams,    \* class -> its __pyderive_validate__ and its fields' validators
    TYPE_VALIDATORS, \* validators.TYPE_VALIDATORS
    threads,    \* the threads started so far, each its position in its call
    repr_running \* the set repr_running of reprlib.recursive_repr's wrapper

vars == <<annos, cattrs, user, cdict, derive, heap, COMPILED, dataf, gen,
          status, objs, calls, last, vparams, TYPE_VALIDATORS, threads,
          repr_running>>

classvars == <<annos, cattrs, user, cdict, derive, heap, COMPILED, dataf, gen,
               status, vparams, TYPE_VALIDATORS, threads, repr_running>>

-----------------------------------------------------------------------------
(* Bounds *)

\* passed argument values are the integers 1..MaxVal
MaxVal == 2
\* number of instances kept
MaxObjs == 2
\* number of instances whose attributes are set and deleted
MaxGuarded == 1
\* number of default-factory calls followed
MaxCalls == 3

-----------------------------------------------------------------------------
(* Python values *)

IntV(n) == [t |-> "int", v |-> n]
\* the k-th object returned by a default factory
ObjV(k) == [t |-> "obj", v |-> k]
MISSING == [t |-> "MISSING", v |-> 0]
HDF     == [t |-> "HDF", v |-> 0]

Values == {IntV(n) : n \in 1..MaxVal}

\* the plain default the modelled class bodies assign (x: int = 0)
PlainDefault == IntV(0)

-----------------------------------------------------------------------------
(* The class hierarchy:  class P: ...   class C(P): ...                    *)
(* and, where a specification declares them, a second subclass E(P) and     *)
(* the classes A, B and D(A, B)                                             *)

Classes == {"P", "C"}

\* cls.__mro__ without object
Mro(c) ==
    CASE c = "C" -> <<"C", "P">>
      [] c = "E" -> <<"E", "P">>
      [] c = "D" -> <<"D", "A", "B">>
      [] OTHER   -> <<c>>

Names == {"a", "b"}

MethodNames == {"__init__", "__repr__", "__eq__", "__lt__", "__le__", "__gt__",
                "__ge__", "__hash__", "__setattr__", "__delattr__",
                "__post_init__", "__match_args__"}

\* the class that an attribute lookup on c finds: the first class of the MRO
\* of c for which Has holds, "object" when there is none
MroFirst(c, Has(_)) ==
    LET idx == {i \in 1..Len(Mro(c)) : Has(Mro(c)[i])}
    IN IF idx = {} THEN "object"
       ELSE Mro(c)[CHOOSE i \in idx : \A j \in idx : i <= j]

\* the same lookup started after class k: super(k, self)
MroAfter(c, k, Has(_)) ==
    LET at  == CHOOSE i \in 1..Len(Mro(c)) : Mro(c)[i] = k
        idx == {i \in (at + 1)..Len(Mro(c)) : Has(Mro(c)[i])}
    IN IF idx = {} THEN "object"
       ELSE Mro(c)[CHOOSE i \in idx : \A j \in idx : i <= j]

-----------------------------------------------------------------------------
(* abc.py *)

Field(name, default, default_factory, init, repr, hash, compare, kw_only, frozen, field_type) ==
    [name |-> name, default |-> default, default_factory |-> default_factory,
     init |-> init, repr |-> repr, hash |-> hash, compare |-> compare,
     kw_only |-> kw_only, frozen |-> frozen, field_type |-> field_type]

\* Field(name, anno, default): every other parameter at its default
FieldFactory(name, default) ==
    Field(name, default, FALSE, TRUE, TRUE, TRUE, TRUE, FALSE, FALSE, "STANDARD")

\* FlatStruct() / ClassStruct(parent=parent)
EmptyFun == [n \in {} |-> FieldFactory("", MISSING)]

ClassStruct(parent) == [order |-> <<>>, fields |-> EmptyFun, parent |-> parent]

ordered_fields(struct) == [i \in 1..Len(struct.order) |-> struct.fields[struct.order[i]]]

-----------------------------------------------------------------------------
(* helpers on sequences and functions *)

SeqRemove(s, x) == SelectSeq(s, LAMBDA y : y # x)

InSeq(s, x) == \E i \in 1..Len(s) : s[i] = x

FunSet(f, k, val) == [n \in DOMAIN f \cup {k} |-> IF n = k THEN val ELSE f[n]]

FunDel(f, k) == [n \in DOMAIN f \ {k} |-> f[n]]

-----------------------------------------------------------------------------
(* parse.py *)

\* a remove_field that leaves the ancestor tables alone
remove_field_own_table(h, current, name) ==
    IF current = 0 THEN h
    ELSE [h EXCEPT ![current].fields = FunDel(@, name),
                   ![current].order  = SeqRemove(@, name)]

\* remove_field: delete the name from the table and from every ancestor table
RECURSIVE remove_field(_, _, _)
remove_field(h, current, name) ==
    IF current = 0 THEN h
    ELSE LET s  == h[current]
             s2 == IF name \in DOMAIN s.fields
                   THEN [s EXCEPT !.fields = FunDel(@, name),
                                  !.order  = SeqRemove(@, name)]
                   ELSE s
         IN remove_field([h EXCEPT ![current] = s2], s.parent, name)

\* one turn of the loop over base.__annotations__ (parse.py 67-90)

\* parse.py 80-89: the FieldDef found as the default is reused under the
\* annotated name, any other default is wrapped by the factory; an InitVar
\* annotation marks the field INIT_VAR
MakeField(name, anno, has, attr) ==
    LET field0 == IF has /\ attr.isField THEN [attr.f EXCEPT !.name = name]
                  ELSE FieldFactory(name, IF has THEN attr.f.default ELSE MISSING)
    IN IF anno = "InitVar" THEN [field0 EXCEPT !.field_type = "INIT_VAR"]
       ELSE field0

\* parse.py 77-78, 90
AddField(s, name, fld) ==
    [s EXCEPT !.order  = IF InSeq(@, name) THEN @ ELSE Append(@, name),
              !.fields = FunSet(@, name, fld)]

NoAttr == [isField |-> FALSE, f |-> FieldFactory("", MISSING)]

\* ps holds what parse_fields has changed so far, ps.cur is its variable
\* `fields`; owner is the class getattr(base, name) finds the attribute on
ParseAnnoAt(ps, base, decl, owner) ==
    IF owner # "object" /\ owner # base
    THEN \* delattr(base, name) of an attribute that base only inherits
         [ps EXCEPT !.err = "AttributeError"]
    ELSE IF decl.anno = "ClassVar"
    THEN [ps EXCEPT !.cattrs[base] = FunDel(@, decl.name),
                    !.heap = remove_field(@, ps.cur, decl.name)]
    ELSE [ps EXCEPT !.cattrs[base] = FunDel(@, decl.name),
                    !.heap[ps.cur] =
                        AddField(@, decl.name,
                            MakeField(decl.name, decl.anno, owner = base,
                                IF owner = base THEN ps.cattrs[base][decl.name]
                                ELSE NoAttr))]

ParseAnno(ps, base, decl) ==
    ParseAnnoAt(ps, base, decl,
                MroFirst(base, LAMBDA k : decl.name \in DOMAIN ps.cattrs[k]))

RECURSIVE ParseAnnos(_, _, _, _)
ParseAnnos(ps, base, an, i) ==
    IF i > Len(an) \/ ps.err # "" THEN ps
    ELSE ParseAnnos(ParseAnno(ps, base, an[i]), base, an, i + 1)

\* getattr(base, DERIVE_ATTR, None): the heap index of the table, 0 for None
DeriveAttr(dv, base) ==
    LET owner == MroFirst(base, LAMBDA k : dv[k] # 0)
    IN IF owner = "object" THEN 0 ELSE dv[owner]

\* parse.py 62-65
NewTable(ps, base) ==
    [ps EXCEPT !.compiled = @ \cup {base},
               !.heap = Append(@, ClassStruct(DeriveAttr(ps.derive, base))),
               !.cur = Len(ps.heap) + 1]

\* parse.py 91-93
AttachTable(ps, base) ==
    IF ps.err = "" /\ DOMAIN ps.heap[ps.cur].fields # {}
    THEN [ps EXCEPT !.derive[base] = ps.cur]
    ELSE ps

\* the loop over the bases (parse.py 54-93), root-most class first
RECURSIVE ParseBases(_, _, _, _)
ParseBases(ps, bases, recurse, an) ==
    IF bases = <<>> \/ ps.err # "" THEN ps
    ELSE ParseBases(
            IF recurse /\ bases[Len(bases)] \in ps.compiled THEN ps
            ELSE AttachTable(
                    ParseAnnos(NewTable(ps, bases[Len(bases)]), bases[Len(bases)],
                               an[bases[Len(bases)]], 1),
                    bases[Len(bases)]),
            SubSeq(bases, 1, Len(bases) - 1), recurse, an)

\* parse.py 94-100
ParseEnd(ps, cls) ==
    IF ps.err # "" THEN ps
    ELSE IF ps.cur = 0 THEN [ps EXCEPT !.err = "RuntimeError"]
    ELSE IF DeriveAttr(ps.derive, cls) = 0 THEN [ps EXCEPT !.derive[cls] = ps.cur]
    ELSE ps

\* parse_fields(cls, factory=Field, recurse, delete=True); the result holds the
\* changed COMPILED, heap, __derive__ attributes and class attributes, the
\* index of the returned ClassStruct (cur) and the exception raised (err)
parse_fields(cls, recurse, an, ca, dv, hp, compiled) ==
    ParseEnd(ParseBases([heap |-> hp, derive |-> dv, cattrs |-> ca,
                         compiled |-> compiled, cur |-> 0, err |-> ""],
                        IF recurse THEN Mro(cls) ELSE <<cls>>, recurse, an),
             cls)

has_default(field) == field.default # MISSING \/ field.default_factory

\* the chain of tables from the farthest parent to the class itself
RECURSIVE Heigharchy(_, _)
Heigharchy(h, idx) ==
    IF idx = 0 THEN <<>> ELSE Append(Heigharchy(h, h[idx].parent), idx)

\* the fields in the order flatten_fields visits them
RECURSIVE Visits(_, _, _)
Visits(h, chain, i) ==
    IF i > Len(chain) THEN <<>>
    ELSE ordered_fields(h[chain[i]]) \o Visits(h, chain, i + 1)

\* variant of FlattenLoop: a name already merged keeps the spec merged first
RECURSIVE FlattenLoop_keep_first(_, _, _, _)
FlattenLoop_keep_first(st, visits, i, order_kw) ==
    IF i > Len(visits) \/ st.err # "" THEN st
    ELSE IF order_kw /\ (st.kwargs \/ has_default(visits[i]))
                     /\ ~has_default(visits[i])
    THEN [st EXCEPT !.err = "TypeError"]
    ELSE FlattenLoop_keep_first(
            [st EXCEPT !.kwargs = @ \/ has_default(visits[i]),
                       !.order  = IF InSeq(@, visits[i].name) THEN @
                                  ELSE Append(@, visits[i].name),
                       !.fields = IF visits[i].name \in DOMAIN @ THEN @
                                  ELSE FunSet(@, visits[i].name, visits[i])],
            visits, i + 1, order_kw)

\* the loop of flatten_fields (parse.py 121-135) from visit i on; st holds
\* kwargs, the FlatStruct built so far and the exception raised
RECURSIVE FlattenLoop(_, _, _, _)
FlattenLoop(st, visits, i, order_kw) ==
    IF i > Len(visits) \/ st.err # "" THEN st
    ELSE IF order_kw /\ (st.kwargs \/ has_default(visits[i]))
                     /\ ~has_default(visits[i])
    THEN [st EXCEPT !.err = "TypeError"]
    ELSE FlattenLoop(
            [st EXCEPT !.kwargs = @ \/ has_default(visits[i]),
                       !.order  = IF InSeq(@, visits[i].name) THEN @
                                  ELSE Append(@, visits[i].name),
                       !.fields = FunSet(@, visits[i].name, visits[i])],
            visits, i + 1, order_kw)

FlattenEnd(st) ==
    [err |-> st.err, fields |-> IF st.err = "" THEN ordered_fields(st) ELSE <<>>]

\* flatten_fields(fields, order_kw): [err, fields] with fields the flattened list
flatten_fields(h, idx, order_kw) ==
    FlattenEnd(FlattenLoop([kwargs |-> FALSE, order |-> <<>>, fields |-> EmptyFun,
                            err |-> ""],
                           Visits(h, Heigharchy(h, idx), 1), 1, order_kw))

-----------------------------------------------------------------------------
(* compile.py *)

\* the function object given as default_factory
FactoryFn == [t |-> "function", v |-> 0]

\* _init_param: the parameter's name and the kind of default its text carries;
\* dv is what the name _init_<name> of the default's text is bound to when the
\* def is compiled: _init_value binds it to the factory when there is one
\* (compile.py 72-78) and else to the default (82-83)
_init_param(field) ==
    [name |-> field.name,
     kind |-> IF field.default = MISSING /\ ~field.default_factory THEN "required"
              ELSE IF field.default # MISSING THEN "default"
              ELSE "HDF",
     dv   |-> IF field.default_factory THEN FactoryFn ELSE field.default]

\* _init_value that calls the factory whether or not a value is passed
_init_value_factory_always(field) ==
    IF field.default_factory THEN [err |-> "", expr |-> "factory"]
    ELSE IF field.init THEN [err |-> "", expr |-> "param"]
    ELSE IF field.default # MISSING THEN [err |-> "", expr |-> "default"]
    ELSE [err |-> "TypeError", expr |-> ""]

\* _init_value: the expression assigned for the field, or the TypeError raised
_init_value(field) ==
    IF field.default_factory
    THEN [err |-> "", expr |-> IF field.init THEN "factory_if_HDF" ELSE "factory"]
    ELSE IF field.init THEN [err |-> "", expr |-> "param"]
    ELSE IF field.default # MISSING THEN [err |-> "", expr |-> "default"]
    ELSE [err |-> "TypeError", expr |-> ""]

\* _init_assign: object.__setattr__(self, name, value) when frozen, else
\* self.name = value
_init_assign(name, value, dv, frozen) ==
    [name |-> name, expr |-> value, dv |-> dv, frozen |-> frozen]

NoInit == [args |-> <<>>, kwonly |-> <<>>, body |-> <<>>, post |-> <<>>,
           callpost |-> FALSE, err |-> ""]

\* the compiler's check of a generated def: among the positional parameters
\* no parameter without a default may follow one with a default
DefSyntaxError(args) ==
    \E i, j \in 1..Len(args) :
        i < j /\ args[i].kind # "required" /\ args[j].kind = "required"

\* one turn of the loop of create_init (compile.py 115-132)
InitTurn(fn, field, value, kw_only, frozen) ==
    IF field.field_type = "INIT_VAR" /\ field.default_factory
    THEN [fn EXCEPT !.err = "TypeError"]
    ELSE IF value.err # "" THEN [fn EXCEPT !.err = value.err]
    ELSE [fn EXCEPT
            !.post   = IF field.field_type = "INIT_VAR"
                       THEN Append(@, field.name) ELSE @,
            !.kwonly = IF field.init /\ (kw_only \/ field.kw_only)
                       THEN Append(@, _init_param(field)) ELSE @,
            !.args   = IF field.init /\ ~(kw_only \/ field.kw_only)
                       THEN Append(@, _init_param(field)) ELSE @,
            !.body   = Append(@, _init_assign(field.name, value.expr,
                                     field.default, frozen \/ field.frozen))]

RECURSIVE InitLoop(_, _, _, _, _)
InitLoop(fn, fields, i, kw_only, frozen) ==
    IF i > Len(fields) \/ fn.err # "" THEN fn
    ELSE InitLoop(InitTurn(fn, fields[i], _init_value(fields[i]), kw_only, frozen),
                  fields, i + 1, kw_only, frozen)

\* compile.py 133-143: the __post_init__ call, and _create_fn compiling the def
InitEnd(fn, post_init) ==
    IF fn.err # "" THEN [NoInit EXCEPT !.err = fn.err]
    ELSE IF DefSyntaxError(fn.args) THEN [NoInit EXCEPT !.err = "SyntaxError"]
    ELSE [fn EXCEPT !.callpost = post_init \/ fn.post # <<>>]

\* create_init: the generated __init__ (its parameters, body statements and
\* __post_init__ call), or the exception raised while building it
create_init(fields, kw_only, post_init, frozen) ==
    InitEnd(InitLoop(NoInit, fields, 1, kw_only, frozen), post_init)

NamesWhere(fields, Flag(_)) ==
    LET sel == SelectSeq(fields, Flag)
    IN [i \in 1..Len(sel) |-> sel[i].name]

\* create_repr: the names the generated __repr__ prints
create_repr(fields) == NamesWhere(fields, LAMBDA f : f.repr)

\* create_compare: the names whose values the generated comparator compares
create_compare(fields) == NamesWhere(fields, LAMBDA f : f.compare)

\* create_hash: the names whose values the generated __hash__ hashes
create_hash(fields) == NamesWhere(fields, LAMBDA f : f.hash)

\* assign_func that assigns whether or not the name is already defined
assign_func_overwriting(d, name, func, overwrite) ==
    [exists |-> d[name] # "absent", d |-> [d EXCEPT ![name] = func]]

\* assign_func on the class's __dict__ d: [exists, d]
assign_func(d, name, func, overwrite) ==
    IF ~overwrite /\ d[name] # "absent"
    THEN [exists |-> TRUE, d |-> d]
    ELSE [exists |-> FALSE, d |-> [d EXCEPT ![name] = func]]

\* freeze_fields that reads the per-field flags only
FrozenNames_field_flags(struct, frozen) ==
    {struct.order[i] : i \in {j \in 1..Len(struct.order) :
                                 struct.fields[struct.order[j]].frozen}}

\* freeze_fields: the names the generated __setattr__/__delattr__ refuse
FrozenNames(struct, frozen) ==
    {struct.order[i] : i \in {j \in 1..Len(struct.order) :
                                 frozen \/ struct.fields[struct.order[j]].frozen}}

-----------------------------------------------------------------------------
(* dataclass.py *)

\* HASH_ACTIONS: (unsafe_hash, eq, frozen, has_explicit_hash) -> hash-action
HASH_ACTIONS(key) ==
    CASE key = <<FALSE, FALSE, FALSE, FALSE>> -> "None"
      [] key = <<FALSE, FALSE, FALSE, TRUE >> -> "None"
      [] key = <<FALSE, FALSE, TRUE,  FALSE>> -> "None"
      [] key = <<FALSE, FALSE, TRUE,  TRUE >> -> "None"
      [] key = <<FALSE, TRUE,  FALSE, FALSE>> -> "_hash_none"
      [] key = <<FALSE, TRUE,  FALSE, TRUE >> -> "None"
      [] key = <<FALSE, TRUE,  TRUE,  FALSE>> -> "_hash_add"
      [] key = <<FALSE, TRUE,  TRUE,  TRUE >> -> "None"
      [] key = <<TRUE,  FALSE, FALSE, FALSE>> -> "_hash_add"
      [] key = <<TRUE,  FALSE, FALSE, TRUE >> -> "_hash_err"
      [] key = <<TRUE,  FALSE, TRUE,  FALSE>> -> "_hash_add"
      [] key = <<TRUE,  FALSE, TRUE,  TRUE >> -> "_hash_err"
      [] key = <<TRUE,  TRUE,  FALSE, FALSE>> -> "_hash_add"
      [] key = <<TRUE,  TRUE,  FALSE, TRUE >> -> "_hash_err"
      [] key = <<TRUE,  TRUE,  TRUE,  FALSE>> -> "_hash_add"
      [] key = <<TRUE,  TRUE,  TRUE,  TRUE >> -> "_hash_err"

\* what the generated functions of a class close over; an entry is in use
\* when the class's __dict__ holds the generated function ("gen")
NoGen == [init |-> NoInit, repr |-> <<>>, eq |-> <<>>, lt |-> <<>>, le |-> <<>>,
          gt |-> <<>>, ge |-> <<>>, hash |-> <<>>, frozen |-> {}, match |-> <<>>,
          slotted |-> FALSE, slots |-> {}]

\* hasattr(cls, name) for a special method
HasMethod(cls, name) ==
    MroFirst(cls, LAMBDA k : cdict[k][name] # "absent") # "object"

InstallInit(m, fn) ==
    IF fn.err # "" THEN [m EXCEPT !.err = fn.err]
    ELSE [m EXCEPT !.cd = assign_func(@, "__init__", "gen", FALSE).d,
                   !.g.init = IF m.cd["__init__"] # "absent" THEN @ ELSE fn]

\* dataclass.py 152-154: if init: assign_func(cls, create_init(...))
StepInit(m, cls, cfg, fields) ==
    IF m.err # "" \/ ~cfg.init THEN m
    ELSE InstallInit(m, create_init(fields, cfg.kw_only,
                                    HasMethod(cls, "__post_init__"), cfg.frozen))

\* dataclass.py 155-156
StepRepr(m, cfg, fields) ==
    IF m.err # "" \/ ~cfg.repr THEN m
    ELSE LET a == assign_func(m.cd, "__repr__", "gen", FALSE)
         IN [m EXCEPT !.cd = a.d,
                      !.g.repr = IF a.exists THEN @ ELSE create_repr(fields)]

\* dataclass.py 157-158
StepEq(m, cfg, fields) ==
    IF m.err # "" \/ ~cfg.eq THEN m
    ELSE LET a == assign_func(m.cd, "__eq__", "gen", FALSE)
         IN [m EXCEPT !.cd = a.d,
                      !.g.eq = IF a.exists THEN @ ELSE create_compare(fields)]

\* dataclass.py 159-167: one turn of the loop over lt, le, gt, ge
StepOrd(m, cfg, fields, fname, key) ==
    IF m.err # "" \/ ~cfg.order THEN m
    ELSE LET a == assign_func(m.cd, fname, "gen", FALSE)
         IN IF a.exists THEN [m EXCEPT !.err = "TypeError"]
            ELSE [m EXCEPT !.cd = a.d, !.g[key] = create_compare(fields)]

\* dataclass.py 168-169 with compile.py 260-279
StepFreeze(m, cfg, fields, struct) ==
    IF m.err # "" \/ ~(cfg.frozen \/ \E i \in 1..Len(fields) : fields[i].frozen)
    THEN m
    ELSE LET a == assign_func(m.cd, "__setattr__", "gen", FALSE)
             b == assign_func(a.d, "__delattr__", "gen", FALSE)
         IN [m EXCEPT !.cd = b.d, !.g.frozen = FrozenNames(struct, cfg.frozen)]

\* dataclass.py 170-179
StepHash(m, cfg, fields) ==
    IF m.err # "" THEN m
    ELSE
    LET class_eq    == m.cd["__eq__"] # "absent"
        class_hash  == m.cd["__hash__"]
        explicit    == ~(class_hash \in {"absent", "None"} /\ class_eq)
        hash_action == HASH_ACTIONS(<<cfg.unsafe_hash, cfg.eq, cfg.frozen, explicit>>)
    IN  IF hash_action = "None" THEN m
        ELSE IF hash_action = "_hash_err" THEN [m EXCEPT !.err = "TypeError"]
        ELSE LET a == assign_func(m.cd, "__hash__",
                          IF hash_action = "_hash_add" THEN "gen" ELSE "None", FALSE)
             IN [m EXCEPT !.cd = a.d,
                          !.g.hash = IF ~a.exists /\ hash_action = "_hash_add"
                                     THEN create_hash(fields) ELSE @]

\* dataclass.py 180-183
StepMatch(m, cfg, fields) ==
    IF m.err # "" \/ ~cfg.match_args THEN m
    ELSE LET a == assign_func(m.cd, "__match_args__", "gen", FALSE)
         IN [m EXCEPT !.cd = a.d,
                      !.g.match = IF a.exists THEN @
                                  ELSE NamesWhere(fields, LAMBDA f : f.init)]

\* the names in the __slots__ of the bases cls.__mro__[1:-1] (compile.py
\* 224-225)
BaseSlots(cls) ==
    UNION {gen[Mro(cls)[i]].slots : i \in 2..Len(Mro(cls))}

\* dataclass.py 184-186 with compile.py 213-238: add_slots makes a new class
\* from the __dict__ of cls with __slots__ naming the fields no base has a
\* slot for; the generated functions, made before, are taken over as they are;
\* a class that has __slots__ in its __dict__ is refused (compile.py 221-222)
StepSlots(m, cls, cfg, fields) ==
    IF m.err # "" \/ ~cfg.slots THEN m
    ELSE IF m.g.slotted THEN [m EXCEPT !.err = "TypeError"]
    ELSE [m EXCEPT !.g.slotted = TRUE,
                   !.g.slots = {fields[i].name : i \in 1..Len(fields)}
                                   \ BaseSlots(cls)]

\* dataclass.py 151-186, from the resolved fields on
Build(cls, cfg, fields, struct) ==
    StepSlots(StepMatch(StepHash(StepFreeze(
        StepOrd(StepOrd(StepOrd(StepOrd(
            StepEq(StepRepr(StepInit([cd |-> cdict[cls], g |-> gen[cls], err |-> ""],
                                     cls, cfg, fields),
                            cfg, fields),
                   cfg, fields),
            cfg, fields, "__lt__", "lt"),
            cfg, fields, "__le__", "le"),
            cfg, fields, "__gt__", "gt"),
            cfg, fields, "__ge__", "ge"),
        cfg, fields, struct), cfg, fields), cfg, fields), cls, cfg, fields)

\* what _process_class leaves behind: ps from parse_fields, the exception
\* raised, the FIELD_ATTR set and the class's __dict__ and generated functions
Outcome(cls, ps, err, df, m) ==
    [err |-> err, cattrs |-> ps.cattrs, derive |-> ps.derive, heap |-> ps.heap,
     compiled |-> ps.compiled, dataf |-> df, cd |-> m.cd, g |-> m.g]

\* the member descriptor a class has for a name of its __slots__
SlotDescriptor == [t |-> "member_descriptor", v |-> 0]

\* the class made by add_slots in place of cls (compile.py 226-235): its
\* __dict__ is that of cls without the entries named like fields and with a
\* descriptor for each name of __slots__; it is a new object, whose hash is
\* not in COMPILED
Recreated(ps, cls, fields, slots) ==
    [ps EXCEPT
        !.compiled = @ \ {cls},
        !.cattrs[cls] =
            [n \in (DOMAIN @ \ {fields[i].name : i \in 1..Len(fields)}) \cup slots |->
                IF n \in slots
                THEN [isField |-> FALSE, f |-> FieldFactory("", SlotDescriptor)]
                ELSE @[n]]]

Built(cls, ps, fields, m) ==
    Outcome(cls, IF m.g.slotted /\ ~gen[cls].slotted /\ m.err = ""
                 THEN Recreated(ps, cls, fields, m.g.slots) ELSE ps,
            m.err, [set |-> TRUE, fields |-> fields], m)

Flattened(cls, cfg, ps, ff) ==
    IF ff.err # ""
    THEN Outcome(cls, ps, ff.err, dataf[cls], [cd |-> cdict[cls], g |-> gen[cls]])
    ELSE Built(cls, ps, ff.fields, Build(cls, cfg, ff.fields, ps.heap[ps.cur]))

Parsed(cls, cfg, ps) ==
    IF ps.err # ""
    THEN Outcome(cls, ps, ps.err, dataf[cls], [cd |-> cdict[cls], g |-> gen[cls]])
    ELSE Flattened(cls, cfg, ps, flatten_fields(ps.heap, ps.cur, TRUE))

\* _process_class(cls, **cfg) with slots=False: the exception raised (err) and
\* everything the call has changed by the time it returns or raises
_process_class(cls, cfg) ==
    IF cfg.order /\ ~cfg.eq
    THEN [err |-> "ValueError", cattrs |-> cattrs, derive |-> derive,
          heap |-> heap, compiled |-> COMPILED, dataf |-> dataf[cls],
          cd |-> cdict[cls], g |-> gen[cls]]
    ELSE Parsed(cls, cfg,
                parse_fields(cls, cfg.recurse, annos, cattrs, derive, heap, COMPILED))

\* dataclass(**cfg) defaults
DefaultCfg == [init |-> TRUE, repr |-> TRUE, eq |-> TRUE, order |-> FALSE,
               unsafe_hash |-> FALSE, frozen |-> FALSE, match_args |-> TRUE,
               kw_only |-> FALSE, slots |-> FALSE, recurse |-> FALSE]

\* a class without __pyderive_validate__, its fields without validators
NoValidate == [set |-> FALSE, typecast |-> FALSE, fields |-> <<>>]

\* TYPE_VALIDATORS = {}: no annotation has a registered validator
NoValidators == [a \in {} |-> <<>>]

NoLast == [op |-> "", cls |-> "", o |-> 0, n |-> "", res |-> "", hook |-> <<>>,
           pos |-> <<>>, kw |-> <<>>, changed |-> FALSE, calls0 |-> 0, val |-> "",
           other |-> 0, h |-> <<>>]

Decorated(cls, cfg, r) ==
    /\ cattrs' = r.cattrs
    /\ derive' = r.derive
    /\ heap' = r.heap
    /\ COMPILED' = r.compiled
    /\ dataf' = [dataf EXCEPT ![cls] = r.dataf]
    /\ cdict' = [cdict EXCEPT ![cls] = r.cd]
    /\ gen' = [gen EXCEPT ![cls] = r.g]
    /\ status' = [status EXCEPT ![cls] =
                     [st |-> IF r.err = "" THEN "ok" ELSE r.err, cfg |-> cfg]]
    /\ last' = [NoLast EXCEPT !.op = "decorate", !.cls = cls,
                              !.res = IF r.err = "" THEN "ok" ELSE r.err]

\* the decorator applied to class cls, once, in definition order: P before C,
\* and C is only defined when the definition of P did not raise; classes are
\* defined before instances are made
Decorate(cls, cfg) ==
    /\ status[cls].st = "raw"
    /\ \A k \in DOMAIN status : (k # cls /\ InSeq(Mro(k), cls)) => status[k].st = "raw"
    /\ \A i \in 1..Len(Mro(cls)) : status[Mro(cls)[i]].st \in {"raw", "ok"}
    /\ objs = <<>>
    /\ Decorated(cls, cfg, _process_class(cls, cfg))
    /\ UNCHANGED <<annos, user, objs, calls, vparams, TYPE_VALIDATORS, threads,
                   repr_running>>

\* the decorator applied again, as dataclass(**cfg)(cls), to a class it has
\* already returned, or to a plain class that the decoration of a subclass
\* has scanned
Redecorate(cls, cfg) ==
    /\ status[cls].st = "ok" \/ (status[cls].st = "raw" /\ cls \in COMPILED)
    /\ \A i \in 1..Len(Mro(cls)) : status[Mro(cls)[i]].st \in {"raw", "ok"}
    /\ objs = <<>>
    /\ Decorated(cls, cfg, _process_class(cls, cfg))
    /\ UNCHANGED <<annos, user, objs, calls, vparams, TYPE_VALIDATORS, threads,
                   repr_running>>

-----------------------------------------------------------------------------
(* Instances: the generated functions called on instances                    *)

\* the class of the MRO of c whose __dict__ provides the special method m
Provider(c, m) == MroFirst(c, LAMBDA k : cdict[k][m] # "absent")

\* what type(self).m is for an instance of c: "gen", "user", "None", or
\* "absent" when only object provides it
Kind(c, m) ==
    IF Provider(c, m) = "object" THEN "absent" ELSE cdict[Provider(c, m)][m]

\* instances of c have a __dict__: some class of the MRO has no __slots__
HasDict(c) == \E i \in 1..Len(Mro(c)) : ~gen[Mro(c)[i]].slotted

\* the attribute n of type(self) is the descriptor of a slot
IsSlot(c, n) ==
    /\ MroFirst(c, LAMBDA k : n \in DOMAIN cattrs[k]) # "object"
    /\ cattrs[MroFirst(c, LAMBDA k : n \in DOMAIN cattrs[k])][n].f.default
          = SlotDescriptor

\* object.__setattr__(self, n, v) on an instance of c: the value goes to the
\* slot of that name or to the __dict__, and without either it is refused
StoreAttr(c, attrs, n, v) ==
    IF IsSlot(c, n) \/ HasDict(c) THEN [err |-> "", attrs |-> FunSet(attrs, n, v)]
    ELSE [err |-> "AttributeError", attrs |-> attrs]

RECURSIVE SetVia(_, _, _, _, _)
\* __setattr__(self, n, v) found at class k of the MRO of c: the generated
\* guard (compile.py 265-269) raises for its names and calls
\* super(cls, self).__setattr__ otherwise, cls being the class freeze_fields
\* was given: when add_slots has since made another class in its place, self
\* is no instance of cls and super raises TypeError; a __setattr__ written in
\* a class body and object.__setattr__ store the value
SetVia(c, k, attrs, n, v) ==
    IF k = "object" \/ cdict[k]["__setattr__"] = "user"
    THEN StoreAttr(c, attrs, n, v)
    ELSE IF n \in gen[k].frozen
    THEN [err |-> "FrozenInstanceError", attrs |-> attrs]
    ELSE IF gen[k].slotted
    THEN [err |-> "TypeError", attrs |-> attrs]
    ELSE SetVia(c, MroAfter(c, k, LAMBDA j : cdict[j]["__setattr__"] # "absent"),
                attrs, n, v)

RECURSIVE DelVia(_, _, _, _)
\* __delattr__(self, n) found at class k of the MRO of c (compile.py 270-274)
DelVia(c, k, attrs, n) ==
    IF k = "object" \/ cdict[k]["__delattr__"] = "user"
    THEN IF n \in DOMAIN attrs THEN [err |-> "", attrs |-> FunDel(attrs, n)]
         ELSE [err |-> "AttributeError", attrs |-> attrs]
    ELSE IF n \in gen[k].frozen
    THEN [err |-> "FrozenInstanceError", attrs |-> attrs]
    ELSE IF gen[k].slotted
    THEN [err |-> "TypeError", attrs |-> attrs]
    ELSE DelVia(c, MroAfter(c, k, LAMBDA j : cdict[j]["__delattr__"] # "absent"),
                attrs, n)

\* the parameters of the generated def after self: args, '*', kwonly
Params(fn) == fn.args \o fn.kwonly

ParamNames(fn) == {Params(fn)[i].name : i \in 1..Len(Params(fn))}

\* the call __init__(self, *pos, **kw) does not bind: too many positional
\* arguments, an unexpected keyword, two values for one parameter, or a
\* required parameter without a value
BindError(fn, pos, kw) ==
    \/ Len(pos) > Len(fn.args)
    \/ \E n \in DOMAIN kw : n \notin ParamNames(fn)
    \/ \E i \in 1..Len(pos) : i <= Len(fn.args) /\ fn.args[i].name \in DOMAIN kw
    \/ \E i \in 1..Len(Params(fn)) :
          /\ Params(fn)[i].kind = "required"
          /\ i > Len(pos) \/ i > Len(fn.args)
          /\ Params(fn)[i].name \notin DOMAIN kw

\* the value parameter i is bound to
BindValue(fn, pos, kw, i) ==
    IF i <= Len(fn.args) /\ i <= Len(pos) THEN pos[i]
    ELSE IF Params(fn)[i].name \in DOMAIN kw THEN kw[Params(fn)[i].name]
    ELSE IF Params(fn)[i].kind = "default" THEN Params(fn)[i].dv
    ELSE HDF

Bind(fn, pos, kw) ==
    [n \in ParamNames(fn) |->
        BindValue(fn, pos, kw, CHOOSE i \in 1..Len(Params(fn)) : Params(fn)[i].name = n)]

\* the statement calls the default factory
CallsFactory(s, env) ==
    s.expr = "factory" \/ (s.expr = "factory_if_HDF" /\ env[s.name] = HDF)

\* the value of the statement's right-hand side (compile.py 69-89)
Rhs(s, env, ncalls) ==
    IF CallsFactory(s, env) THEN ObjV(ncalls + 1)
    ELSE IF s.expr = "default" THEN s.dv
    ELSE env[s.name]

\* the statement's assignment (compile.py 91-95)
Assign(c, s, attrs, v) ==
    IF s.frozen THEN StoreAttr(c, attrs, s.name, v)
    ELSE SetVia(c, Provider(c, "__setattr__"), attrs, s.name, v)

RECURSIVE InitBody(_, _, _, _, _, _)
\* the assignment statements i.. of the generated __init__ run on an instance
\* of c
InitBody(c, fn, env, i, attrs, ncalls) ==
    IF i > Len(fn.body) THEN [err |-> "", attrs |-> attrs, calls |-> ncalls, hook |-> <<>>]
    ELSE IF Assign(c, fn.body[i], attrs, Rhs(fn.body[i], env, ncalls)).err # ""
    THEN [err |-> Assign(c, fn.body[i], attrs, Rhs(fn.body[i], env, ncalls)).err,
          attrs |-> attrs, hook |-> <<>>,
          calls |-> ncalls + IF CallsFactory(fn.body[i], env) THEN 1 ELSE 0]
    ELSE InitBody(c, fn, env, i + 1,
                  Assign(c, fn.body[i], attrs, Rhs(fn.body[i], env, ncalls)).attrs,
                  ncalls + IF CallsFactory(fn.body[i], env) THEN 1 ELSE 0)

\* the last statement: self.__post_init__(*post) (compile.py 134-136); hook is
\* the sequence of the calls made to __post_init__, each its argument tuple
PostInit(c, fn, env, r) ==
    IF r.err # "" \/ ~fn.callpost THEN r
    ELSE IF Kind(c, "__post_init__") = "absent" THEN [r EXCEPT !.err = "AttributeError"]
    ELSE IF \E i \in 1..Len(fn.post) : fn.post[i] \notin DOMAIN env
    THEN [r EXCEPT !.err = "NameError"]
    ELSE [r EXCEPT !.hook = Append(@, [i \in 1..Len(fn.post) |-> env[fn.post[i]]])]

\* the generated __init__ called with pos and kw on a new instance of c
GenInit(c, fn, pos, kw) ==
    IF BindError(fn, pos, kw)
    THEN [err |-> "TypeError", attrs |-> <<>>, calls |-> calls, hook |-> <<>>]
    ELSE PostInit(c, fn, Bind(fn, pos, kw),
                  InitBody(c, fn, Bind(fn, pos, kw), 1, <<>>, calls))

\* c(*pos, **kw): the generated __init__, an __init__ written in a class body
\* (taken to accept its arguments and store nothing), or object's
New(c, pos, kw) ==
    IF Kind(c, "__init__") = "gen"
    THEN GenInit(c, gen[Provider(c, "__init__")].init, pos, kw)
    ELSE IF Kind(c, "__init__") = "absent" /\ (pos # <<>> \/ DOMAIN kw # {})
    THEN [err |-> "TypeError", attrs |-> <<>>, calls |-> calls, hook |-> <<>>]
    ELSE [err |-> "", attrs |-> <<>>, calls |-> calls, hook |-> <<>>]

Constructed(c, pos, kw, r) ==
    /\ objs' = IF r.err = "" THEN Append(objs, [cls |-> c, attrs |-> r.attrs])
               ELSE objs
    /\ calls' = r.calls
    /\ last' = [NoLast EXCEPT !.op = "new", !.cls = c,
                              !.o = IF r.err = "" THEN Len(objs) + 1 ELSE 0,
                              !.res = IF r.err = "" THEN "ok" ELSE r.err,
                              !.hook = r.hook,
                              !.pos = IF r.err = "" THEN pos ELSE <<>>,
                              !.kw = IF r.err = "" THEN kw ELSE <<>>,
                              !.calls0 = calls]

\* an instance of a decorated class is constructed
Construct(c, pos, kw) ==
    /\ status[c].st = "ok"
    /\ Len(objs) < MaxObjs
    /\ calls < MaxCalls
    /\ Constructed(c, pos, kw, New(c, pos, kw))
    /\ UNCHANGED classvars

\* the argument lists of the modelled calls: at most two arguments in all
PosArgs == {<<>>} \cup {<<v>> : v \in Values} \cup (Values \X Values)

KwArgs == UNION {[D -> Values] : D \in SUBSET Names}

CallArgs == {x \in PosArgs \X KwArgs : Len(x[1]) + Cardinality(DOMAIN x[2]) <= 2}

SetDone(i, n, v, r) ==
    /\ objs' = [objs EXCEPT ![i].attrs = r.attrs]
    /\ last' = [NoLast EXCEPT !.op = "set", !.cls = objs[i].cls, !.o = i, !.n = n,
                              !.res = IF r.err = "" THEN "ok" ELSE r.err,
                              !.changed = r.attrs # objs[i].attrs]

\* objs[i].n = v
SetAttr(i, n, v) ==
    /\ i \in 1..Len(objs)
    /\ SetDone(i, n, v, SetVia(objs[i].cls, Provider(objs[i].cls, "__setattr__"),
                               objs[i].attrs, n, v))
    /\ UNCHANGED <<classvars, calls>>

DelDone(i, n, r) ==
    /\ objs' = [objs EXCEPT ![i].attrs = r.attrs]
    /\ last' = [NoLast EXCEPT !.op = "del", !.cls = objs[i].cls, !.o = i, !.n = n,
                              !.res = IF r.err = "" THEN "ok" ELSE r.err,
                              !.changed = r.attrs # objs[i].attrs]

\* del objs[i].n
DelAttr(i, n) ==
    /\ i \in 1..Len(objs)
    /\ DelDone(i, n, DelVia(objs[i].cls, Provider(objs[i].cls, "__delattr__"),
                            objs[i].attrs, n))
    /\ UNCHANGED <<classvars, calls>>

\* the value of self.n: the instance's stored attribute, else the class
\* attribute the MRO provides, else AttributeError
AttributeError == [t |-> "AttributeError", v |-> 0]

ClassAttr(c, n) ==
    IF MroFirst(c, LAMBDA k : n \in DOMAIN cattrs[k]) = "object" THEN AttributeError
    ELSE IF cattrs[MroFirst(c, LAMBDA k : n \in DOMAIN cattrs[k])][n].isField
    THEN [t |-> "Field", v |-> 0]
    ELSE IF IsSlot(c, n) THEN AttributeError
    ELSE cattrs[MroFirst(c, LAMBDA k : n \in DOMAIN cattrs[k])][n].f.default

GetAttr(o, n) == IF n \in DOMAIN o.attrs THEN o.attrs[n] ELSE ClassAttr(o.cls, n)

\* _tuple_str(names, 'self') evaluated on o (compile.py 158-163)
TupleOf(o, names) == [i \in 1..Len(names) |-> GetAttr(o, names[i])]

Raises(tuple) == \E i \in 1..Len(tuple) : tuple[i] = AttributeError

\* the first index at which two tuples of one length differ, 0 if none
FirstDiff(s, t) ==
    IF \A i \in 1..Len(s) : s[i] = t[i] THEN 0
    ELSE CHOOSE i \in 1..Len(s) : s[i] # t[i] /\ \A j \in 1..(i - 1) : s[j] = t[j]

PyBool(b) == IF b THEN "True" ELSE "False"

CmpInts(m, x, y) ==
    CASE m = "__lt__" -> x < y
      [] m = "__le__" -> x <= y
      [] m = "__gt__" -> x > y
      [] m = "__ge__" -> x >= y

\* self_t op other_t for tuples of one length: integers compare by value,
\* other objects are equal only to themselves and are not ordered
TupleCmp(m, s, t) ==
    IF FirstDiff(s, t) = 0 THEN PyBool(m \in {"__eq__", "__le__", "__ge__"})
    ELSE IF m = "__eq__" THEN "False"
    ELSE IF s[FirstDiff(s, t)].t = "int" /\ t[FirstDiff(s, t)].t = "int"
    THEN PyBool(CmpInts(m, s[FirstDiff(s, t)].v, t[FirstDiff(s, t)].v))
    ELSE "TypeError"

\* the names the comparator generated for class k as method m compares
CompareNames(k, m) ==
    CASE m = "__eq__" -> gen[k].eq
      [] m = "__lt__" -> gen[k].lt
      [] m = "__le__" -> gen[k].le
      [] m = "__gt__" -> gen[k].gt
      [] m = "__ge__" -> gen[k].ge

\* the generated comparator (compile.py 177-181): the tuples are compared when
\* other.__class__ is self.__class__; otherwise `raise NotImplemented` runs,
\* and raising a non-exception is a TypeError
GenCompare(m, names, self, other, sameClass) ==
    IF ~sameClass THEN "TypeError"
    ELSE IF Raises(TupleOf(self, names)) \/ Raises(TupleOf(other, names))
    THEN "AttributeError"
    ELSE TupleCmp(m, TupleOf(self, names), TupleOf(other, names))

\* type(objs[i]).m(objs[i], other), other being objs[j] or, for j = 0, an
\* object of an unrelated class; a comparator written in a class body is
\* taken to return True, object's __eq__ is identity
MethodCmp(m, i, j) ==
    IF Kind(objs[i].cls, m) = "gen"
    THEN GenCompare(m, CompareNames(Provider(objs[i].cls, m), m), objs[i],
                    objs[IF j = 0 THEN i ELSE j],
                    j # 0 /\ objs[IF j = 0 THEN i ELSE j].cls = objs[i].cls)
    ELSE IF Kind(objs[i].cls, m) = "user" THEN "True"
    ELSE IF m = "__eq__" /\ i = j THEN "True"
    ELSE "NotImplemented"

\* the reflected method is tried first when the right operand's class is a
\* proper subclass of the left's and provides a different method
RightFirst(i, j) ==
    /\ objs[j].cls # objs[i].cls
    /\ InSeq(Mro(objs[j].cls), objs[i].cls)
    /\ Provider(objs[j].cls, "__eq__") # Provider(objs[i].cls, "__eq__")

Default(first, second, identical) ==
    IF first # "NotImplemented" THEN first
    ELSE IF second # "NotImplemented" THEN second
    ELSE PyBool(identical)

\* the expression objs[i] == other
EqOp(i, j) ==
    IF j = 0 THEN Default(MethodCmp("__eq__", i, 0), "NotImplemented", FALSE)
    ELSE IF RightFirst(i, j)
    THEN Default(MethodCmp("__eq__", j, i), MethodCmp("__eq__", i, j), i = j)
    ELSE Default(MethodCmp("__eq__", i, j), MethodCmp("__eq__", j, i), i = j)

\* hash(objs[i]): the generated __hash__ hashes the tuple of the hash fields
\* (compile.py 190-192), and tuples of integers have equal hashes only when
\* equal; a __hash__ written in a class body is taken to be constant;
\* object's is the identity
HashOf(i) ==
    CASE Kind(objs[i].cls, "__hash__") = "gen" ->
            IF Raises(TupleOf(objs[i], gen[Provider(objs[i].cls, "__hash__")].hash))
            THEN [err |-> "AttributeError", h |-> <<>>]
            ELSE [err |-> "", h |-> <<"tuple", TupleOf(objs[i],
                                        gen[Provider(objs[i].cls, "__hash__")].hash)>>]
      [] Kind(objs[i].cls, "__hash__") = "None" -> [err |-> "TypeError", h |-> <<>>]
      [] Kind(objs[i].cls, "__hash__") = "user" -> [err |-> "", h |-> <<"const">>]
      [] OTHER -> [err |-> "", h |-> <<"id", i>>]

\* type(objs[i]).m(objs[i], other) is called and, for __eq__, the expression
\* objs[i] == other is evaluated
Compare(m, i, j) ==
    /\ i \in 1..Len(objs) /\ j \in 0..Len(objs)
    /\ last' = [NoLast EXCEPT !.op = "cmp", !.cls = objs[i].cls, !.o = i, !.n = m,
                              !.other = j, !.res = MethodCmp(m, i, j),
                              !.val = IF m = "__eq__" THEN EqOp(i, j) ELSE ""]
    /\ UNCHANGED <<classvars, objs, calls>>

\* hash(objs[i])
Hash(i) ==
    /\ i \in 1..Len(objs)
    /\ last' = [NoLast EXCEPT !.op = "hash", !.cls = objs[i].cls, !.o = i,
                              !.res = IF HashOf(i).err = "" THEN "ok" ELSE HashOf(i).err,
                              !.h = HashOf(i).h]
    /\ UNCHANGED <<classvars, objs, calls>>

-----------------------------------------------------------------------------
(* Class bodies the model starts from *)

\* field(**kwargs): Field('', MISSING, **kwargs)  (dataclass.py 63-67)
field(default, default_factory, init, hash, compare, kw_only, frozen) ==
    Field("", default, default_factory, init, TRUE, hash, compare, kw_only,
          frozen, "STANDARD")

\* one annotated line of a class body: the annotation and what is assigned
Line(anno, has, isField, f) == [anno |-> anno, has |-> has, isField |-> isField, f |-> f]

\* x: int
Req == Line("plain", FALSE, FALSE, FieldFactory("", MISSING))
\* x: int = 0
Dflt == Line("plain", TRUE, FALSE, FieldFactory("", PlainDefault))
\* x: list = field(default_factory=list)
Fact == Line("plain", TRUE, TRUE, field(MISSING, TRUE, TRUE, TRUE, TRUE, FALSE, FALSE))
\* x: int = field(kw_only=True)
KwReq == Line("plain", TRUE, TRUE, field(MISSING, FALSE, TRUE, TRUE, TRUE, TRUE, FALSE))
\* x: int = field(default=0, kw_only=True)
KwDflt == Line("plain", TRUE, TRUE, field(PlainDefault, FALSE, TRUE, TRUE, TRUE, TRUE, FALSE))
\* x: InitVar[int]
VarReq == Line("InitVar", FALSE, FALSE, FieldFactory("", MISSING))
\* x: InitVar[int] = 0
VarDflt == Line("InitVar", TRUE, FALSE, FieldFactory("", PlainDefault))
\* x: InitVar[list] = field(default_factory=list)
VarFact == Line("InitVar", TRUE, TRUE, field(MISSING, TRUE, TRUE, TRUE, TRUE, FALSE, FALSE))
\* x: int = field(frozen=True)
FrzReq == Line("plain", TRUE, TRUE, field(MISSING, FALSE, TRUE, TRUE, TRUE, FALSE, TRUE))
\* x: int = field(compare=False)
NoCmp == Line("plain", TRUE, TRUE, field(MISSING, FALSE, TRUE, TRUE, FALSE, FALSE, FALSE))
\* x: int = field(hash=False)
NoHash == Line("plain", TRUE, TRUE, field(MISSING, FALSE, TRUE, FALSE, TRUE, FALSE, FALSE))
\* x: int = field(compare=False, hash=False)
NoCmpHash == Line("plain", TRUE, TRUE, field(MISSING, FALSE, TRUE, FALSE, FALSE, FALSE, FALSE))
\* x: int = field(default=0, init=False)
NoInitDflt == Line("plain", TRUE, TRUE, field(PlainDefault, FALSE, FALSE, TRUE, TRUE, FALSE, FALSE))
\* x: list = field(default_factory=list, init=False)
NoInitFact == Line("plain", TRUE, TRUE, field(MISSING, TRUE, FALSE, TRUE, TRUE, FALSE, FALSE))

\* x: int = field(default=0, default_factory=list)
Both == Line("plain", TRUE, TRUE, field(PlainDefault, TRUE, TRUE, TRUE, TRUE, FALSE, FALSE))
\* x: int = field(default=0, default_factory=list, init=False)
BothNoInit == Line("plain", TRUE, TRUE, field(PlainDefault, TRUE, FALSE, TRUE, TRUE, FALSE, FALSE))
\* x: int = field(repr=False)
NoRepr == Line("plain", TRUE, TRUE,
               [field(MISSING, FALSE, TRUE, TRUE, TRUE, FALSE, FALSE) EXCEPT !.repr = FALSE])
\* x: ClassVar[int]
ClsVar == Line("ClassVar", FALSE, FALSE, FieldFactory("", MISSING))
\* x: ClassVar[int] = 0
ClsVarDflt == Line("ClassVar", TRUE, FALSE, FieldFactory("", PlainDefault))

\* class bodies: the lines of the set T on distinct names, "a" before "b" or
\* "b" before "a"
Bodies(T) ==
    {<<>>}
    \cup {<<[name |-> n, line |-> t]>> : n \in Names, t \in T}
    \cup {<<[name |-> n1, line |-> t1], [name |-> n2, line |-> t2]>> :
            <<n1, n2>> \in {p \in Names \X Names : p[1] # p[2]}, t1 \in T, t2 \in T}

\* the __dict__ entries type() makes for a body defining the methods of U: a
\* body with __eq__ and without __hash__ gets __hash__ = None
ClassDict(U) ==
    [m \in MethodNames |->
        IF m \in U THEN "user"
        ELSE IF m = "__hash__" /\ "__eq__" \in U THEN "None"
        ELSE "absent"]

\* the state after the class statements of P and C(P) have run, undecorated
InitWith(bodyP, bodyC, userP, userC) ==
    LET body == [c \in Classes |-> IF c = "P" THEN bodyP ELSE bodyC]
    IN
    /\ annos = [c \in Classes |->
                  [i \in 1..Len(body[c]) |->
                      [name |-> body[c][i].name, anno |-> body[c][i].line.anno]]]
    /\ cattrs = [c \in Classes |->
                  [n \in {body[c][i].name : i \in {j \in 1..Len(body[c]) :
                                                      body[c][j].line.has}} |->
                      LET i == CHOOSE j \in 1..Len(body[c]) : body[c][j].name = n
                      IN [isField |-> body[c][i].line.isField, f |-> body[c][i].line.f]]]
    /\ user = [c \in Classes |-> IF c = "P" THEN userP ELSE userC]
    /\ cdict = [c \in Classes |-> ClassDict(IF c = "P" THEN userP ELSE userC)]
    /\ derive = [c \in Classes |-> 0]
    /\ heap = <<>>
    /\ COMPILED = {}
    /\ dataf = [c \in Classes |-> [set |-> FALSE, fields |-> <<>>]]
    /\ gen = [c \in Classes |-> NoGen]
    /\ status = [c \in Classes |-> [st |-> "raw", cfg |-> DefaultCfg]]
    /\ objs = <<>>
    /\ calls = 0
    /\ last = NoLast
    /\ vparams = [c \in Classes |-> NoValidate]
    /\ TYPE_VALIDATORS = NoValidators
    /\ threads = <<>>
    /\ repr_running = {}

\* the same for the classes and bodies of body, none defining a method, with
\* the threads ths about to run
InitOver(body, ths) ==
    /\ annos = [c \in DOMAIN body |->
                  [i \in 1..Len(body[c]) |->
                      [name |-> body[c][i].name, anno |-> body[c][i].line.anno]]]
    /\ cattrs = [c \in DOMAIN body |->
                  [n \in {body[c][i].name : i \in {j \in 1..Len(body[c]) :
                                                      body[c][j].line.has}} |->
                      LET i == CHOOSE j \in 1..Len(body[c]) : body[c][j].name = n
                      IN [isField |-> body[c][i].line.isField, f |-> body[c][i].line.f]]]
    /\ user = [c \in DOMAIN body |-> {}]
    /\ cdict = [c \in DOMAIN body |-> ClassDict({})]
    /\ derive = [c \in DOMAIN body |-> 0]
    /\ heap = <<>>
    /\ COMPILED = {}
    /\ dataf = [c \in DOMAIN body |-> [set |-> FALSE, fields |-> <<>>]]
    /\ gen = [c \in DOMAIN body |-> NoGen]
    /\ status = [c \in DOMAIN body |-> [st |-> "raw", cfg |-> DefaultCfg]]
    /\ objs = <<>>
    /\ calls = 0
    /\ last = NoLast
    /\ vparams = [c \in DOMAIN body |-> NoValidate]
    /\ TYPE_VALIDATORS = NoValidators
    /\ threads = ths
    /\ repr_running = {}

-----------------------------------------------------------------------------
(* Resolution: every pair of class bodies on two names; P is left a plain    *)
(* class or decorated with the defaults, C is decorated with and without a   *)
(* generated __init__ and with and without ancestor scanning                 *)

ResolveLines == {Req, Dflt, KwReq, KwDflt, VarReq, VarFact}

ResolveCfgs == {[DefaultCfg EXCEPT !.init = i, !.recurse = r] :
                   i \in BOOLEAN, r \in BOOLEAN}

InitResolve ==
    \E bodyP \in Bodies(ResolveLines), bodyC \in Bodies(ResolveLines) :
        InitWith(bodyP, bodyC, {}, {})

NextResolve ==
    \/ Decorate("P", DefaultCfg)
    \/ \E cfg \in ResolveCfgs : Decorate("C", cfg)

SpecResolve == InitResolve /\ [][NextResolve]_vars

-----------------------------------------------------------------------------
(* Properties of resolution *)

\* a field with neither default nor default factory comes after a field that
\* has one and is not keyword-only
BadOrder(fields) ==
    \E i, j \in 1..Len(fields) :
        /\ i < j
        /\ has_default(fields[i]) /\ ~fields[i].kw_only
        /\ ~has_default(fields[j])

\* the merged field list of a class whose tables have been parsed: the merge
\* of flatten_fields without its ordering check
MergedList(cls) == flatten_fields(heap, DeriveAttr(derive, cls), FALSE).fields

\* flatten_fields raised in the decorator call for cls
ResolutionFailed(cls) == status[cls].st = "TypeError" /\ ~dataf[cls].set

\* C1: whenever the final merged field list of a class has a field without a
\* default after a non-keyword-only field with a default, resolution fails and
\* the class is not augmented: no class ever carries such a resolved list.
C1_MergedOrderRejected ==
    \A cls \in Classes : dataf[cls].set => ~BadOrder(dataf[cls].fields)

Uniform(fields) ==
    \/ \A i \in 1..Len(fields) : ~has_default(fields[i])
    \/ \A i \in 1..Len(fields) : has_default(fields[i])
    \/ \A i \in 1..Len(fields) : fields[i].kw_only

\* C2: resolution succeeds for every field list in which all fields have no
\* default, or all have a default, or all are keyword-only: flatten_fields
\* never raises on such a list.
C2_UniformListsResolve ==
    \A cls \in Classes : ResolutionFailed(cls) => ~Uniform(MergedList(cls))

\* C10: no class the decorator has accepted, under any configuration, has an
\* INIT_ONLY field with a default factory in its resolved field list.
C10_InitVarFactoryRejected ==
    \A cls \in Classes :
        status[cls].st = "ok" =>
            \A i \in 1..Len(dataf[cls].fields) :
                ~(dataf[cls].fields[i].field_type = "INIT_VAR"
                  /\ dataf[cls].fields[i].default_factory)

-----------------------------------------------------------------------------
(* Method synthesis: class P: a: int, with every set of special methods      *)
(* defined in its body, decorated under every combination of init, repr,     *)
(* eq, order, unsafe_hash and frozen                                         *)

OrderMethods == {"__lt__", "__le__", "__gt__", "__ge__"}

UserMethods == {"__init__", "__repr__", "__eq__", "__hash__", "__setattr__",
                "__delattr__"} \cup OrderMethods

MethodCfgs ==
    {[DefaultCfg EXCEPT !.init = i, !.repr = r, !.eq = e, !.order = o,
                        !.unsafe_hash = u, !.frozen = f] :
        i \in BOOLEAN, r \in BOOLEAN, e \in BOOLEAN, o \in BOOLEAN,
        u \in BOOLEAN, f \in BOOLEAN}

InitMethods ==
    \E userP \in SUBSET UserMethods :
        InitWith(<<[name |-> "a", line |-> Req]>>, <<>>, userP, {})

NextMethods == \E cfg \in MethodCfgs : Decorate("P", cfg)

SpecMethods == InitMethods /\ [][NextMethods]_vars

\* the decorator call for cls can fail before or apart from the hash step
OtherError(cls) ==
    \/ status[cls].cfg.order /\ ~status[cls].cfg.eq
    \/ status[cls].cfg.order /\ user[cls] \cap OrderMethods # {}

\* the documented decision table: what happens to __hash__
HashTable(unsafe_hash, eq, frozen, explicit) ==
    IF ~unsafe_hash /\ ~eq THEN "untouched"
    ELSE IF ~unsafe_hash /\ explicit THEN "untouched"
    ELSE IF ~unsafe_hash /\ ~frozen THEN "none"
    ELSE IF ~unsafe_hash THEN "synthesized"
    ELSE IF ~explicit THEN "synthesized"
    ELSE "error"

ExpectedHash(cls) ==
    HashTable(status[cls].cfg.unsafe_hash, status[cls].cfg.eq,
              status[cls].cfg.frozen, "__hash__" \in user[cls])

\* C7: for all 16 combinations of (unsafe_hash, eq, frozen, explicit hash in the
\* class body) the decorator's effect on __hash__ is the decision table's:
\* untouched, set to None, synthesized and installed, or decoration fails.
C7_HashDecisionTable ==
    \A cls \in Classes :
        (status[cls].st # "raw" /\ ~OtherError(cls)) =>
            CASE ExpectedHash(cls) = "error" ->
                    status[cls].st = "TypeError"
              [] ExpectedHash(cls) = "untouched" ->
                    /\ status[cls].st = "ok"
                    /\ cdict[cls]["__hash__"] = ClassDict(user[cls])["__hash__"]
              [] ExpectedHash(cls) = "none" ->
                    /\ status[cls].st = "ok"
                    /\ cdict[cls]["__hash__"] = "None"
              [] ExpectedHash(cls) = "synthesized" ->
                    /\ status[cls].st = "ok"
                    /\ cdict[cls]["__hash__"] = "gen"
                    /\ gen[cls].hash = create_hash(dataf[cls].fields)

KeptMethods == {"__init__", "__repr__", "__eq__", "__setattr__", "__delattr__"}

\* the decorator option that asks for the method
Requested(cls, m) ==
    CASE m = "__init__" -> status[cls].cfg.init
      [] m = "__repr__" -> status[cls].cfg.repr
      [] m = "__eq__"   -> status[cls].cfg.eq
      [] OTHER          -> status[cls].cfg.frozen
                           \/ \E i \in 1..Len(dataf[cls].fields) :
                                 dataf[cls].fields[i].frozen

\* C8: a method the class body defines is never replaced by the decorator;
\* after a successful decoration each of __init__, __repr__, __eq__,
\* __setattr__, __delattr__ is the user's function if the body defined one and
\* otherwise the generated one (when its option asks for it); with order=True
\* a body that defines any of __lt__, __le__, __gt__, __ge__ makes the
\* decoration fail.
C8_UserMethodsKept ==
    \A cls \in Classes :
        /\ \A m \in user[cls] : cdict[cls][m] = "user"
        /\ status[cls].st = "ok" =>
              \A m \in KeptMethods \ user[cls] :
                  cdict[cls][m] = IF Requested(cls, m) THEN "gen" ELSE "absent"
        /\ (status[cls].st # "raw" /\ status[cls].cfg.order
                /\ user[cls] \cap OrderMethods # {}) =>
              status[cls].st \notin {"raw", "ok"}

\* a frozen class whose body defines __setattr__ and __eq__ but no __init__
\* or __delattr__ has been decorated successfully
C8_Witness ==
    /\ status["P"].st = "ok"
    /\ status["P"].cfg.frozen /\ status["P"].cfg.init /\ status["P"].cfg.eq
    /\ {"__setattr__", "__eq__"} \subseteq user["P"]
    /\ cdict["P"]["__setattr__"] = "user" /\ cdict["P"]["__eq__"] = "user"
    /\ cdict["P"]["__delattr__"] = "gen" /\ cdict["P"]["__init__"] = "gen"

-----------------------------------------------------------------------------
(* Construction: class P with two fields, with and without a __post_init__   *)
(* in its body, decorated with the defaults and instantiated                 *)

ConstructLines == {Req, Dflt, Fact, KwDflt, NoInitDflt, NoInitFact, VarReq}

ConstructBodies ==
    {<<[name |-> "a", line |-> t1], [name |-> "b", line |-> t2]>> :
        t1 \in ConstructLines, t2 \in ConstructLines}

InitConstruct ==
    \E bodyP \in ConstructBodies, userP \in {{}, {"__post_init__"}} :
        InitWith(bodyP, <<>>, userP, {})

NextConstruct ==
    \/ Decorate("P", DefaultCfg)
    \/ \E x \in CallArgs : Construct("P", x[1], x[2])

SpecConstruct == InitConstruct /\ [][NextConstruct]_vars

\* the init fields of the resolved list that are positional parameters
Positional(cls) ==
    SelectSeq(dataf[cls].fields,
              LAMBDA f : f.init /\ ~(f.kw_only \/ status[cls].cfg.kw_only))

\* the call passes a value for field f
Supplied(cls, f, pos, kw) ==
    /\ f.init
    /\ \/ f.name \in DOMAIN kw
       \/ \E i \in 1..Len(pos) : i <= Len(Positional(cls)) /\ Positional(cls)[i].name = f.name

\* the value the call passes for field f
Passed(cls, f, pos, kw) ==
    IF f.name \in DOMAIN kw THEN kw[f.name]
    ELSE pos[CHOOSE i \in 1..Len(pos) : Positional(cls)[i].name = f.name]

\* the fields of the resolved list whose value comes from a factory call
FromFactory(cls, pos, kw) ==
    {i \in 1..Len(dataf[cls].fields) :
        /\ dataf[cls].fields[i].default_factory
        /\ ~Supplied(cls, dataf[cls].fields[i], pos, kw)}

\* the last operation is a completed call of the constructor generated for
\* the class of the new instance
Constructs(cls) ==
    /\ last.op = "new" /\ last.res = "ok" /\ last.cls = cls
    /\ cdict[cls]["__init__"] = "gen"

\* C3: the generated constructor binds like a function signature built from
\* the resolved list: a field stores the value passed for it by position (in
\* resolved order) or by keyword; an omitted field with a plain default stores
\* that default; an omitted field with a default factory stores the result of
\* a factory call made for this construction, one call per such field, and no
\* call is made for a field whose value is supplied.
C3_ConstructorBinds ==
    \A cls \in Classes :
        Constructs(cls) =>
            /\ \A i \in 1..Len(dataf[cls].fields) :
                  LET f == dataf[cls].fields[i]
                      stored == objs[last.o].attrs[f.name]
                  IN /\ f.name \in DOMAIN objs[last.o].attrs
                     /\ Supplied(cls, f, last.pos, last.kw) =>
                           stored = Passed(cls, f, last.pos, last.kw)
                     /\ (~Supplied(cls, f, last.pos, last.kw) /\ ~f.default_factory) =>
                           stored = f.default
                     /\ i \in FromFactory(cls, last.pos, last.kw) =>
                           /\ stored.t = "obj"
                           /\ stored.v \in (last.calls0 + 1)..calls
                           /\ \A j \in FromFactory(cls, last.pos, last.kw) :
                                 j # i => objs[last.o].attrs[dataf[cls].fields[j].name] # stored
            /\ calls = last.calls0 + Cardinality(FromFactory(cls, last.pos, last.kw))

\* two records (a: int, b: list = field(default_factory=...)) were made, the
\* second by a call passing a only: each holds the result of its own factory
\* call
C3_Witness ==
    /\ Len(objs) = 2 /\ Constructs("P")
    /\ Len(dataf["P"].fields) = 2
    /\ dataf["P"].fields[2].default_factory /\ dataf["P"].fields[2].init
    /\ dataf["P"].fields[1].default = MISSING /\ ~dataf["P"].fields[1].default_factory
    /\ last.pos = <<IntV(1)>> /\ last.kw = <<>>
    /\ objs[2].attrs["a"] = IntV(1)
    /\ objs[1].attrs["b"] = ObjV(1) /\ objs[2].attrs["b"] = ObjV(2)

\* C9: a field declared InitVar is a constructor parameter and is passed to
\* __post_init__, and the generated constructor does not assign it: after
\* construction the instance has no stored attribute of that name.
C9_InitVarNotStored ==
    \A cls \in Classes :
        Constructs(cls) =>
            \A i \in 1..Len(dataf[cls].fields) :
                dataf[cls].fields[i].field_type = "INIT_VAR" =>
                    dataf[cls].fields[i].name \notin DOMAIN objs[last.o].attrs

-----------------------------------------------------------------------------
(* Frozen guards: class P: a and class C(P): b, each field plain or declared  *)
(* field(frozen=True), each body with or without its own __setattr__ and      *)
(* __delattr__, each class decorated with frozen on or off; instances are     *)
(* made with the value 1 and their attributes set to MaxVal and deleted       *)

GuardMethods == {"__setattr__", "__delattr__"}

FrozenCfgs == {[DefaultCfg EXCEPT !.frozen = f] : f \in BOOLEAN}

InitFrozen ==
    \E x \in {Req, FrzReq}, y \in {Req, FrzReq},
       userP \in {{}, GuardMethods}, userC \in SUBSET GuardMethods :
        InitWith(<<[name |-> "a", line |-> x]>>, <<[name |-> "b", line |-> y]>>,
                 userP, userC)

NextFrozen ==
    \/ \E cls \in Classes, cfg \in FrozenCfgs : Decorate(cls, cfg)
    \/ \E cls \in Classes :
          Len(objs) < MaxGuarded
          /\ Construct(cls, IF cls = "P" THEN <<IntV(1)>> ELSE <<IntV(1), IntV(1)>>, <<>>)
    \/ \E i \in 1..MaxGuarded, n \in Names : SetAttr(i, n, IntV(MaxVal))
    \/ \E i \in 1..MaxGuarded, n \in Names : DelAttr(i, n)

SpecFrozen == InitFrozen /\ [][NextFrozen]_vars

\* the frozen fields declared on cls: the fields of its own annotations, all
\* of them when the class is decorated frozen, else those declared
\* field(frozen=True)
DeclaredFrozen(cls) ==
    {dataf[cls].fields[i].name : i \in {j \in 1..Len(dataf[cls].fields) :
        /\ \E k \in 1..Len(annos[cls]) :
              annos[cls][k].name = dataf[cls].fields[j].name
        /\ status[cls].cfg.frozen \/ dataf[cls].fields[j].frozen}}

\* the last operation set or deleted a frozen field of the instance's class
FrozenTarget ==
    /\ last.op \in {"set", "del"}
    /\ status[last.cls].st = "ok"
    /\ last.n \in DeclaredFrozen(last.cls)

Refused ==
    /\ last.res = "FrozenInstanceError"
    /\ ~last.changed

\* C5 as stated: on an instance of a class with frozen fields declared on it,
\* every set and every delete of a frozen field name raises
\* FrozenInstanceError and leaves every stored value unchanged.
C5_FrozenGuard == FrozenTarget => Refused

\* the class body defines the method that the last operation dispatches to
OwnGuardMethod ==
    \/ last.op = "set" /\ "__setattr__" \in user[last.cls]
    \/ last.op = "del" /\ "__delattr__" \in user[last.cls]

\* C5 amended: the same, for a class whose body does not itself define
\* __setattr__ (for a set) or __delattr__ (for a delete)
C5_FrozenGuardUnlessOwnMethod == (FrozenTarget /\ ~OwnGuardMethod) => Refused

\* a set of the frozen field b of an instance of the frozen class C(P) was
\* refused
C5_Witness ==
    /\ FrozenTarget /\ ~OwnGuardMethod /\ Refused
    /\ last.op = "set" /\ last.cls = "C" /\ last.n = "b"
    /\ status["C"].cfg.frozen /\ "b" \in DOMAIN objs[last.o].attrs

-----------------------------------------------------------------------------
(* Comparison and hashing: class P: a with every compare/hash flag setting,   *)
(* class C(P) without fields or __init__ of its own; P has a generated        *)
(* __eq__, with and without order, and gets its hash from frozen or from      *)
(* unsafe_hash; instances of both classes are compared and hashed             *)

Comparators == {"__eq__"} \cup OrderMethods

CompareCfgsP ==
    {[DefaultCfg EXCEPT !.order = o, !.frozen = f, !.unsafe_hash = u] :
        o \in BOOLEAN, f \in BOOLEAN, u \in BOOLEAN}

CompareCfgsC == {[DefaultCfg EXCEPT !.eq = e, !.init = FALSE] : e \in BOOLEAN}

InitCompare ==
    \E x \in {Req, NoCmp, NoHash, NoCmpHash} :
        InitWith(<<[name |-> "a", line |-> x]>>, <<>>, {}, {})

NextCompare ==
    \/ \E cfg \in CompareCfgsP : Decorate("P", cfg)
    \/ \E cfg \in CompareCfgsC : Decorate("C", cfg)
    \/ \E cls \in Classes, v \in Values : Construct(cls, <<v>>, <<>>)
    \/ \E m \in Comparators, i \in 1..MaxObjs, j \in 0..MaxObjs : Compare(m, i, j)
    \/ \E i \in 1..MaxObjs : Hash(i)

SpecCompare == InitCompare /\ [][NextCompare]_vars

\* the last operation called a generated comparator with an operand whose
\* class is not exactly the class of self
Mismatch ==
    /\ last.op = "cmp"
    /\ Kind(last.cls, last.n) = "gen"
    /\ last.other = 0 \/ objs[last.other].cls # last.cls

\* C4: a generated comparator (__eq__, and with order on __lt__, __le__,
\* __gt__, __ge__) called with an operand whose class is not exactly the class
\* of self returns NotImplemented and raises no TypeError, so == is False;
\* only operands of the same class have their tuples of compare fields
\* compared.
C4_ComparatorsTypeExact ==
    Mismatch =>
        /\ last.res = "NotImplemented"
        /\ last.n = "__eq__" => last.val = "False"

\* both classes of the instances i and j have a generated __eq__ and a
\* generated __hash__ of their own
BothSynthesized(i, j) ==
    /\ objs[i].cls = objs[j].cls
    /\ cdict[objs[i].cls]["__eq__"] = "gen"
    /\ cdict[objs[i].cls]["__hash__"] = "gen"

\* C6: when a class has both a generated __eq__ and a generated __hash__, any
\* two of its instances that are equal have equal hashes, whatever the
\* compare and hash flags of its fields.
C6_EqualImpliesEqualHash ==
    \A i, j \in 1..Len(objs) :
        (BothSynthesized(i, j) /\ EqOp(i, j) = "True") =>
            (HashOf(i).err = "" /\ HashOf(i) = HashOf(j))

-----------------------------------------------------------------------------
(* The validation layer: Python values, declared types and the builtins the *)
(* validators call                                                          *)

\* the float h/2; text; None; containers.  Texts are single characters, sets
\* and dicts hold at most one element, so neither the characters of a text
\* nor a set's iteration order nor merged keys need modelling
FloatV(h) == [t |-> "float", v |-> h]
StrV(s) == [t |-> "str", s |-> s]
NoneV == [t |-> "NoneType"]
ListV(items) == [t |-> "list", items |-> items]
TupleV(items) == [t |-> "tuple", items |-> items]
SetV(elems) == [t |-> "set", elems |-> elems]
DictV(pairs) == [t |-> "dict", pairs |-> pairs]

\* a declared type: int, float, str, Any, List[x], Set[x], Dict[k, v],
\* Tuple[x, ...] (ell: an Ellipsis among the arguments), Union[x, y]
Anno(k, args, ell) == [k |-> k, args |-> args, ell |-> ell]

int == Anno("int", <<>>, FALSE)
float == Anno("float", <<>>, FALSE)
str == Anno("str", <<>>, FALSE)

\* iter(value) as a sequence, for the iterable values
Iter(value) ==
    CASE value.t \in {"list", "tuple"} -> value.items
      [] value.t = "set"  -> IF value.elems = {} THEN <<>>
                             ELSE <<CHOOSE e \in value.elems : TRUE>>
      [] value.t = "dict" -> [i \in 1..Len(value.pairs) |-> value.pairs[i][1]]
      [] value.t = "str"  -> <<value>>

\* hash(value) raises TypeError
RECURSIVE Unhashable(_)
Unhashable(value) ==
    \/ value.t \in {"list", "set", "dict"}
    \/ value.t = "tuple" /\ \E i \in 1..Len(value.items) : Unhashable(value.items[i])

\* repr(value) (quote) and str(value) (~quote): they differ on texts only
RECURSIVE Repr(_, _)
RECURSIVE JoinRepr(_)
JoinRepr(s) ==
    IF s = <<>> THEN ""
    ELSE Repr(Head(s), TRUE) \o (IF Len(s) = 1 THEN "" ELSE ", " \o JoinRepr(Tail(s)))

Repr(value, quote) ==
    CASE value.t = "int"      -> ToString(value.v)
      [] value.t = "float"    -> ToString(value.v \div 2) \o
                                 (IF value.v % 2 = 1 THEN ".5" ELSE ".0")
      [] value.t = "str"      -> IF quote THEN "'" \o value.s \o "'" ELSE value.s
      [] value.t = "NoneType" -> "None"
      [] value.t = "obj"      -> "<object>"
      [] value.t = "list"     -> "[" \o JoinRepr(value.items) \o "]"
      [] value.t = "tuple"    -> "(" \o JoinRepr(value.items) \o
                                 (IF Len(value.items) = 1 THEN ",)" ELSE ")")
      [] value.t = "set"      -> IF value.elems = {} THEN "set()"
                                 ELSE "{" \o JoinRepr(Iter(value)) \o "}"
      [] value.t = "dict"     -> IF value.pairs = <<>> THEN "{}"
                                 ELSE "{" \o Repr(value.pairs[1][1], TRUE) \o ": "
                                      \o Repr(value.pairs[1][2], TRUE) \o "}"

\* the outcome of a call: the value returned (exc = ""), or the exception
\* raised with, for a ValidationError, its value, etype, message and path
\* (FieldValidationError: title is the class name, "" otherwise)
Return(value) ==
    [exc |-> "", value |-> value, anno |-> <<>>, etype |-> "", message |-> "",
     path |-> <<>>, title |-> ""]

\* ValidationError(anno, value, etype, message, path)  (validators.py 574-586)
ValidationError(anno, value, etype, message, path) ==
    [exc |-> "ValidationError", value |-> value, anno |-> anno, etype |-> etype,
     message |-> message, path |-> path, title |-> ""]

\* an exception of another class, raised with the text etype
Raise(exc, value, text) ==
    [exc |-> exc, value |-> value, anno |-> <<>>, etype |-> "", message |-> text,
     path |-> <<>>, title |-> ""]

\* int(value), float(value), str(value): anno(value) of simple_validator
Digits == 0..9

Cast(anno, value) ==
    CASE anno.k = "str" -> Return(StrV(Repr(value, FALSE)))
      [] anno.k = "int" ->
            CASE value.t = "int"   -> Return(value)
              [] value.t = "float" -> Return(IntV(value.v \div 2))
              [] value.t = "str"   ->
                    IF \E n \in Digits : ToString(n) = value.s
                    THEN Return(IntV(CHOOSE n \in Digits : ToString(n) = value.s))
                    ELSE Raise("ValueError", value, "invalid literal for int()")
              [] OTHER -> Raise("TypeError", value, "int() argument must be a string")
      [] anno.k = "float" ->
            CASE value.t = "float" -> Return(value)
              [] value.t = "int"   -> Return(FloatV(2 * value.v))
              [] value.t = "str"   ->
                    IF \E n \in Digits : ToString(n) = value.s
                    THEN Return(FloatV(2 * (CHOOSE n \in Digits : ToString(n) = value.s)))
                    ELSE Raise("ValueError", value, "could not convert string to float")
              [] OTHER -> Raise("TypeError", value, "float() argument must be a string")

\* tuple(value)
ToTuple(value) ==
    IF value.t \in {"list", "tuple", "set", "dict", "str"}
    THEN Return(TupleV(Iter(value)))
    ELSE Raise("TypeError", value, "object is not iterable")

\* variant of Rebuild: list(values) whatever the base
Rebuild_always_list(base, values) == Return(ListV(values))

\* base(values) of seq_validator: list(values) or set(values)
Rebuild(base, values) ==
    IF base = "list" THEN Return(ListV(values))
    ELSE IF \E i \in 1..Len(values) : Unhashable(values[i])
         THEN Raise("TypeError", ListV(values), "unhashable type")
         ELSE Return(SetV({values[i] : i \in 1..Len(values)}))

\* serde.is_sequence: isinstance(value, (set, Sequence)) and not a str
is_sequence(value) == value.t \in {"list", "tuple", "set"}

\* isinstance(value, anno) for a plain class anno
isinstance(value, anno) == value.t = anno.k

-----------------------------------------------------------------------------
(* validators.py: a compiled validator is the data its closure holds, and   *)
(* Call applies it; reg is TYPE_VALIDATORS at the time of the call           *)

\* the closure of a generated validator function
Validator(f, anno, typecast, subs) ==
    [f |-> f, anno |-> anno, typecast |-> typecast, subs |-> subs]

\* the classes whose get_origin is None
PlainClasses == {"int", "float", "str", "NoneType"}

\* type_validator(anno, typecast): the dispatch of validators.py 441-514 on
\* None, a registered annotation, Any, Union, tuple, list/set, dict, a class
RECURSIVE type_validator(_, _, _)
type_validator(anno, typecast, reg) ==
    LET subs == [i \in 1..Len(anno.args) |-> type_validator(anno.args[i], typecast, reg)]
    IN CASE anno.k = "NoneType"       -> Validator("none", anno, typecast, <<>>)
         [] anno \in DOMAIN reg       -> Validator("chain", anno, typecast, <<>>)
         [] anno.k = "Any"            -> Validator("identity", anno, typecast, <<>>)
         [] anno.k = "Union"          -> Validator("union", anno, typecast, subs)
         [] anno.k = "tuple"          -> Validator("tup", anno, typecast, subs)
         [] anno.k \in {"list", "set"} -> Validator("seq", anno, typecast, subs)
         [] anno.k = "dict"           -> Validator("map", anno, typecast, subs)
         [] OTHER                     -> Validator("simple", anno, typecast, <<>>)

\* _anno_name
_anno_name(anno) ==
    CASE anno.k = "str" -> "string"
      [] anno.k = "int" -> "integer"
      [] anno.k = "obj" -> "object"
      [] OTHER -> anno.k

\* the 0-based position n as a path entry: str(n)
Index(i) == ToString(i - 1)

\* e.path.insert(0, entry)
Prepend(e, entry) == [e EXCEPT !.path = <<entry>> \o @]

\* the first call of rs that raised, 0 when every call returned
FirstRaise(rs) ==
    IF \E i \in 1..Len(rs) : rs[i].exc # ""
    THEN CHOOSE i \in 1..Len(rs) : rs[i].exc # "" /\ \A j \in 1..(i - 1) : rs[j].exc = ""
    ELSE 0

\* check_missing
Missing(anno) == ValidationError(anno, NoneV, "missing", "Field required", <<>>)

\* none_validator
none_validator(value) ==
    IF value = NoneV THEN Return(value)
    ELSE ValidationError(<<Anno("NoneType", <<>>, FALSE)>>, value, "not_null",
                         "Value is not Null", <<>>)

\* the function made by simple_validator(anno, typecast)
simple_validator(v, value) ==
    LET name == _anno_name(v.anno)
        fail == ValidationError(<<v.anno>>, value, "parse_" \o name,
                                "Invalid " \o name, <<>>)
        cast == Cast(v.anno, value)
    IN IF value = MISSING THEN Missing(<<v.anno>>)
       ELSE IF isinstance(value, v.anno) THEN Return(value)
       ELSE IF ~v.typecast THEN fail
       ELSE IF cast.exc \in {"ValueError", "ValidationError"} THEN fail
       ELSE cast

\* Min(m).validator of helpers.py: every rejection is `raise
\* ValidationError(text)`, and that call lacks three required arguments
Min(m, value) ==
    IF value.t \notin {"int", "float"}
    THEN Raise("TypeError", value, "__init__() missing 3 required positional arguments")
    ELSE IF (IF value.t = "int" THEN 2 * value.v ELSE value.v) <= 2 * m
    THEN Raise("TypeError", value, "__init__() missing 3 required positional arguments")
    ELSE Return(value)

RECURSIVE Call(_, _, _)

\* the function made by chain_validators(validators): validators is the list
\* object held by TYPE_VALIDATORS, read when the chain runs
RECURSIVE chain(_, _)
chain(validators, value) ==
    IF validators = <<>> THEN Return(value)
    ELSE LET r == Min(Head(validators), value)
         IN IF r.exc # "" THEN r ELSE chain(Tail(validators), r.value)

\* the function made by seq_validator(outer, base, iv, typecast)
seq_validator(v, value, reg) ==
    LET base == v.anno.k
        rs == [i \in 1..Len(Iter(value)) |-> Call(v.subs[1], Iter(value)[i], reg)]
        n == FirstRaise(rs)
    IN IF value = MISSING THEN Missing(<<v.anno>>)
       ELSE IF (~v.typecast /\ value.t # base) \/ ~is_sequence(value)
       THEN ValidationError(<<v.anno>>, value, "parse_sequence", "Invalid Sequence", <<>>)
       ELSE IF n = 0 THEN Rebuild(base, [i \in 1..Len(rs) |-> rs[i].value])
       ELSE IF rs[n].exc = "ValidationError" THEN Prepend(rs[n], Index(n))
       ELSE ValidationError(<<v.anno>>, value, rs[n].message,
                            Repr(ListV(<<StrV(Index(n))>>), TRUE), <<>>)

\* the function made by map_validator(outer, base, kv, vv): one turn per
\* item, the key before its value
RECURSIVE map_items(_, _, _, _)
map_items(v, pairs, values, reg) ==
    IF pairs = <<>> THEN Return(DictV(values))
    ELSE LET k == Call(v.subs[1], Head(pairs)[1], reg)
             w == Call(v.subs[2], Head(pairs)[2], reg)
         IN IF k.exc = "ValidationError" THEN [k EXCEPT !.message = "Invalid Key"]
            ELSE IF k.exc # "" THEN k
            ELSE IF w.exc = "ValidationError"
            THEN Prepend(w, Repr(Head(pairs)[1], FALSE))
            ELSE IF w.exc # "" THEN w
            ELSE IF Unhashable(k.value)
            THEN Raise("TypeError", k.value, "unhashable type")
            ELSE map_items(v, Tail(pairs), Append(values, <<k.value, w.value>>), reg)

map_validator(v, value, reg) ==
    IF value = MISSING THEN Missing(<<v.anno>>)
    ELSE IF value.t # "dict"
    THEN ValidationError(<<v.anno>>, value, "parse_map", "Invalid Mapping", <<>>)
    ELSE map_items(v, value.pairs, <<>>, reg)

\* tuple items validated without the check for too many of them
tup_items_no_max(v, value, reg) ==
    LET nv == Len(v.subs)
        items == value.items
        rs == [i \in 1..Len(items) |->
                  Call(v.subs[IF i <= nv THEN i ELSE nv], items[i], reg)]
        n == FirstRaise(rs)
    IN IF Len(items) < nv
       THEN ValidationError(<<v.anno>>, value, "parse_tuple", "Not enough items", <<>>)
       ELSE IF nv = 0 /\ items # <<>>
       THEN Raise("IndexError", value, "list index out of range")
       ELSE IF n = 0 THEN Return(TupleV([i \in 1..Len(rs) |-> rs[i].value]))
       ELSE IF rs[n].exc = "ValidationError" THEN Prepend(rs[n], Index(n))
       ELSE rs[n]

\* the function made by tup_validator(anno, validators, ellipsis, typecast)
tup_items(v, value, reg) ==
    LET nv == Len(v.subs)
        items == value.items
        rs == [i \in 1..Len(items) |->
                  Call(v.subs[IF i <= nv THEN i ELSE nv], items[i], reg)]
        n == FirstRaise(rs)
    IN IF Len(items) < nv
       THEN ValidationError(<<v.anno>>, value, "parse_tuple", "Not enough items", <<>>)
       ELSE IF ~v.anno.ell /\ Len(items) > nv
       THEN ValidationError(<<v.anno>>, value, "parse_tuple", "Too many items", <<>>)
       ELSE IF n = 0 THEN Return(TupleV([i \in 1..Len(rs) |-> rs[i].value]))
       ELSE IF rs[n].exc = "ValidationError" THEN Prepend(rs[n], Index(n))
       ELSE rs[n]

tup_validator(v, value, reg) ==
    IF value = MISSING THEN Missing(<<v.anno>>)
    ELSE IF value.t = "tuple" THEN tup_items(v, value, reg)
    ELSE IF ~v.typecast
    THEN ValidationError(<<v.anno>>, value, "parse_tuple", "Invalid tuple", <<>>)
    ELSE IF ToTuple(value).exc # "" THEN ToTuple(value)
    ELSE tup_items(v, ToTuple(value).value, reg)

\* union_validator's anno_names: the origins of the arguments that have one,
\* last argument first, each once (validators.py 319-335)
RECURSIVE anno_names(_)
anno_names(args) ==
    IF args = <<>> THEN <<>>
    ELSE LET last_ == args[Len(args)]
             rest  == anno_names(SubSeq(args, 1, Len(args) - 1))
             name  == Anno(last_.k, <<>>, FALSE)
         IN IF last_.k \in PlainClasses THEN rest
            ELSE <<name>> \o SelectSeq(rest, LAMBDA a : a # name)

\* a union loop that gives up when the first validator fails
union_loop_first_only(v, value, reg, i) ==
    IF Call(v.subs[1], value, reg).exc \in {"ValueError", "ValidationError"}
    THEN ValidationError(anno_names(v.anno.args), value, "parse_union",
                         "Unable to Match Union", <<>>)
    ELSE Call(v.subs[1], value, reg)

\* the function made by union_validator(anno, args, validators): the loop
\* over validators from the i-th on
RECURSIVE union_loop(_, _, _, _)
union_loop(v, value, reg, i) ==
    IF i > Len(v.subs)
    THEN ValidationError(anno_names(v.anno.args), value, "parse_union",
                         "Unable to Match Union", <<>>)
    ELSE LET r == Call(v.subs[i], value, reg)
         IN IF r.exc \in {"ValueError", "ValidationError"}
            THEN union_loop(v, value, reg, i + 1)
            ELSE r

union_validator(v, value, reg) ==
    LET annotations == {v.anno.args[i].k : i \in 1..Len(v.anno.args)} \cap PlainClasses
    IN IF value = MISSING
       THEN Missing(SelectSeq(v.anno.args, LAMBDA a : a.k \in PlainClasses))
       ELSE IF value.t \in annotations THEN Return(value)
       ELSE union_loop(v, value, reg, 1)

\* validator(value) for a compiled validator
Call(v, value, reg) ==
    CASE v.f = "none"     -> none_validator(value)
      [] v.f = "chain"    -> chain(reg[v.anno], value)
      [] v.f = "identity" -> Return(value)
      [] v.f = "union"    -> union_validator(v, value, reg)
      [] v.f = "tup"      -> tup_validator(v, value, reg)
      [] v.f = "seq"      -> seq_validator(v, value, reg)
      [] v.f = "map"      -> map_validator(v, value, reg)
      [] v.f = "simple"   -> simple_validator(v, value)

\* '/'.join(_anno_name(a) for a in err.anno)
RECURSIVE JoinNames(_)
JoinNames(annos_) ==
    IF annos_ = <<>> THEN ""
    ELSE _anno_name(Head(annos_)) \o
         (IF Len(annos_) = 1 THEN "" ELSE "/" \o JoinNames(Tail(annos_)))

\* FieldValidationError(title, field, value, etype, message): path = [field.name]
FieldValidationError(title, name, value, etype, message) ==
    [exc |-> "FieldValidationError", value |-> value, anno |-> <<>>,
     etype |-> etype, message |-> message, path |-> <<name>>, title |-> title]

\* convert_error(inst, field, value, err)
convert_error(title, name, value, err) ==
    LET message == IF err.etype # "missing"
                   THEN "Input should be a valid " \o JoinNames(err.anno) \o
                        ", unable to parse " \o _anno_name([k |-> value.t]) \o
                        ". " \o err.message
                   ELSE err.message
        new_err == FieldValidationError(title, name, err.value, err.etype, message)
    IN [new_err EXCEPT !.path = @ \o err.path]

\* field_validator(cls, field, typecast): the closure of the function made
field_validator(name, anno, typecast, reg) ==
    [name |-> name, anno |-> anno, validator |-> type_validator(anno, typecast, reg)]

\* the function made by field_validator, called as fv(self, field, value) on
\* an instance of the class named title
FieldCall(fv, title, value, reg) ==
    LET r == Call(fv.validator, value, reg)
    IN CASE r.exc = "FieldValidationError" -> Prepend(r, fv.name)
         [] r.exc = "ValidationError" -> convert_error(title, fv.name, value, r)
         [] r.exc = "ValueError" ->
                FieldValidationError(title, fv.name, value,
                                     "parse_" \o _anno_name(fv.anno), r.message)
         [] OTHER -> r

-----------------------------------------------------------------------------
(* validate/__init__.py: the validate decorator                             *)

\* the types the modelled class bodies declare:  a: int   b: str
DeclaredAnno(name) == IF name = "a" THEN int ELSE str

\* what a dataclass call that changes nothing would leave behind
Current(cls) ==
    [err |-> "", cattrs |-> cattrs, derive |-> derive, heap |-> heap,
     compiled |-> COMPILED, dataf |-> dataf[cls], cd |-> cdict[cls], g |-> gen[cls]]

\* validate/__init__.py 84-89: f.validator = f.validator or field_validator(..)
\* for every field of FIELD_ATTR.  The Field of abc.py has no validator
\* attribute and field_validator takes the class first; the attachment is
\* taken to work as the validate layer expects of its Field
AttachValidators(fields, typecast) ==
    [n \in {fields[i].name : i \in 1..Len(fields)} |->
        field_validator(n, DeclaredAnno(n), typecast, TYPE_VALIDATORS)]

\* validate/__init__.py 84-96 after the dataclass call with outcome r: the
\* validators are attached, __init__ is generated again by create_init and
\* assigned with overwrite=True, VALIDATE_ATTR is set
Validated(cls, typecast, cfg, r) ==
    LET fn  == create_init(r.dataf.fields, cfg.kw_only,
                           HasMethod(cls, "__post_init__"), cfg.frozen)
        err == IF r.err # "" THEN r.err ELSE fn.err
    IN /\ cattrs' = r.cattrs
       /\ derive' = r.derive
       /\ heap' = r.heap
       /\ COMPILED' = r.compiled
       /\ dataf' = [dataf EXCEPT ![cls] = r.dataf]
       /\ cdict' = [cdict EXCEPT ![cls] =
                       IF err # "" THEN r.cd
                       ELSE assign_func(r.cd, "__init__", "gen", TRUE).d]
       /\ gen' = [gen EXCEPT ![cls] = IF err # "" THEN r.g
                                      ELSE [r.g EXCEPT !.init = fn]]
       /\ status' = [status EXCEPT ![cls] =
                        [st |-> IF r.err = "" THEN "ok" ELSE r.err, cfg |-> cfg]]
       /\ vparams' = [vparams EXCEPT ![cls] =
                         [set |-> err = "", typecast |-> typecast,
                          fields |-> IF r.err # "" THEN <<>>
                                     ELSE AttachValidators(r.dataf.fields, typecast)]]
       /\ last' = [NoLast EXCEPT !.op = "validate", !.cls = cls,
                                 !.res = IF err = "" THEN "ok" ELSE err]

\* validate(cls, typecast) on a dataclass, or validate(cls, typecast,
\* slots=False) on a class that is none: that class is first passed to
\* dataclass(cls, init=False, slots=False)
Validate(cls, typecast) ==
    /\ status[cls].st \in {"raw", "ok"}
    /\ ~vparams[cls].set
    /\ objs = <<>>
    /\ IF status[cls].st = "ok"
       THEN Validated(cls, typecast, status[cls].cfg, Current(cls))
       ELSE Validated(cls, typecast, [DefaultCfg EXCEPT !.init = FALSE],
                      _process_class(cls, [DefaultCfg EXCEPT !.init = FALSE]))
    /\ UNCHANGED <<annos, user, objs, calls, TYPE_VALIDATORS, threads, repr_running>>

-----------------------------------------------------------------------------
(* Validated classes: P with required fields a: int and b: str, decorated    *)
(* or not before validate is applied, constructed with ints, floats, texts  *)

\* number of instances made of a validated class
MaxChecked == 1

ValidateBodies == Bodies({Req, KwReq})

ValidateValues == {IntV(1), FloatV(3), StrV("a")}

ValidateArgs ==
    {x \in (({<<>>} \cup {<<v>> : v \in ValidateValues}
                    \cup (ValidateValues \X ValidateValues))
            \X UNION {[D -> ValidateValues] : D \in SUBSET Names}) :
        Len(x[1]) + Cardinality(DOMAIN x[2]) <= 2}

InitValidate == \E bodyP \in ValidateBodies : InitWith(bodyP, <<>>, {}, {})

NextValidate ==
    \/ \E f \in BOOLEAN : Decorate("P", [DefaultCfg EXCEPT !.frozen = f])
    \/ \E typecast \in BOOLEAN : Validate("P", typecast)
    \/ \E x \in ValidateArgs :
          Len(objs) < MaxChecked /\ Construct("P", x[1], x[2])

SpecValidate == InitValidate /\ [][NextValidate]_vars

\* the value stored under field n of instance i is one the validator attached
\* to the field returns unchanged
Accepted(i, n) ==
    LET r == FieldCall(vparams[objs[i].cls].fields[n], objs[i].cls,
                       objs[i].attrs[n], TYPE_VALIDATORS)
    IN r.exc = "" /\ r.value = objs[i].attrs[n]

-----------------------------------------------------------------------------
(* Compiled validators: every declared type of AnnoSet is compiled, with     *)
(* and without typecasting, directly (type_validator) and for a field a of   *)
(* class P (field_validator), and called once on a value of ValueSet         *)

\* length of the lists and tuples passed in
MaxLen == 2

SeqsUpTo(S, n) == UNION {[1..k -> S] : k \in 0..n}

\* the values passed: scalars, containers of scalars, containers of containers
Scalars == {IntV(1), FloatV(3), StrV("a"), StrV("1"), NoneV, ObjV(0)}

Items == {IntV(1), FloatV(3), StrV("a")}

Flat ==
    {ListV(s) : s \in SeqsUpTo(Items, MaxLen)}
    \cup {TupleV(s) : s \in SeqsUpTo(Items, MaxLen)}
    \cup {SetV(S) : S \in {{}} \cup {{e} : e \in Items}}
    \cup {DictV(p) : p \in {<<>>} \cup {<<<<k, w>>>> : k \in {IntV(1), StrV("a")},
                                                       w \in Items}}

Inner == {ListV(<<IntV(1)>>), ListV(<<StrV("a")>>), ListV(<<NoneV>>),
          TupleV(<<IntV(1)>>), DictV(<<<<StrV("a"), IntV(1)>>>>),
          DictV(<<<<IntV(1), IntV(1)>>>>), IntV(1)}

Nested ==
    {ListV(s) : s \in SeqsUpTo(Inner, MaxLen) \ {<<>>}}
    \cup {TupleV(s) : s \in SeqsUpTo(Inner, MaxLen) \ {<<>>}}
    \cup {DictV(<<<<StrV("a"), w>>>>) : w \in Inner}

ValueSet == Scalars \cup Flat \cup Nested

\* the declared types compiled
Optional(x) == Anno("Union", <<x, Anno("NoneType", <<>>, FALSE)>>, FALSE)

Plain == {int, float, str}

Generics ==
    {Anno(k, <<x>>, FALSE) : k \in {"list", "set"}, x \in Plain}
    \cup {Anno("tuple", <<x>>, e) : x \in {int, str}, e \in BOOLEAN}
    \cup {Anno("tuple", <<int, str>>, e) : e \in BOOLEAN}
    \cup {Anno("tuple", <<>>, FALSE)}
    \cup {Anno("dict", <<k, x>>, FALSE) : k \in {int, str}, x \in {int, str}}

Unions ==
    {Anno("Union", <<p[1], p[2]>>, FALSE) : p \in {q \in Plain \X Plain : q[1] # q[2]}}
    \cup {Optional(int)}

Composite == {Anno("list", <<int>>, FALSE), Anno("list", <<str>>, FALSE),
              Anno("tuple", <<int>>, TRUE), Anno("dict", <<str, int>>, FALSE),
              Anno("dict", <<int, int>>, FALSE), Anno("Union", <<int, str>>, FALSE)}

Compound ==
    {Anno("list", <<x>>, FALSE) : x \in Composite}
    \cup {Anno("tuple", <<x>>, TRUE) : x \in Composite}
    \cup {Anno("dict", <<str, x>>, FALSE) : x \in Composite}
    \cup {Anno("Union", <<x, str>>, FALSE) : x \in Composite}
    \cup {Anno("Union", <<float, x>>, FALSE) : x \in Composite}
    \cup {Anno("Union", <<Anno("list", <<int>>, FALSE), Anno("list", <<str>>, FALSE)>>,
               FALSE)}

AnnoSet == Plain \cup {Anno("Any", <<>>, FALSE)} \cup Generics \cup Unions
           \cup Compound

\* validator = type_validator(anno, typecast); validator(value)
CallType(anno, typecast, value) ==
    /\ last' = [op |-> "type", anno |-> anno, typecast |-> typecast, value |-> value,
                r |-> Call(type_validator(anno, typecast, TYPE_VALIDATORS), value,
                           TYPE_VALIDATORS)]
    /\ UNCHANGED <<classvars, objs, calls>>

\* validator = field_validator(P, a, typecast) for a field a: anno of P;
\* validator(self, a, value)
CallField(anno, typecast, value) ==
    /\ last' = [op |-> "field", anno |-> anno, typecast |-> typecast, value |-> value,
                r |-> FieldCall(field_validator("a", anno, typecast, TYPE_VALIDATORS),
                                "P", value, TYPE_VALIDATORS)]
    /\ UNCHANGED <<classvars, objs, calls>>

InitValidators == InitWith(<<>>, <<>>, {}, {})

\* one call is followed
NextValidators ==
    /\ last = NoLast
    /\ \E anno \in AnnoSet, typecast \in BOOLEAN, value \in ValueSet :
          \/ CallType(anno, typecast, value)
          \/ CallField(anno, typecast, value)

SpecValidators == InitValidators /\ [][NextValidators]_vars

\* the validator that type_validator compiles for the i-th argument of anno
ArgValidator(anno, i, typecast) ==
    type_validator(anno.args[i], typecast, TYPE_VALIDATORS)

\* value is an instance of the declared type: of the class itself, or of the
\* container class with every element an instance of the element type (a
\* tuple: as many items as positions, or at least as many with an Ellipsis)
RECURSIVE InstanceOf(_, _)
InstanceOf(value, anno) ==
    CASE anno.k = "Any"   -> TRUE
      [] anno.k = "Union" -> \E i \in 1..Len(anno.args) : InstanceOf(value, anno.args[i])
      [] anno.k = "list"  ->
            /\ value.t = "list"
            /\ \A i \in 1..Len(value.items) : InstanceOf(value.items[i], anno.args[1])
      [] anno.k = "set"   ->
            value.t = "set" /\ \A e \in value.elems : InstanceOf(e, anno.args[1])
      [] anno.k = "dict"  ->
            /\ value.t = "dict"
            /\ \A i \in 1..Len(value.pairs) :
                  /\ InstanceOf(value.pairs[i][1], anno.args[1])
                  /\ InstanceOf(value.pairs[i][2], anno.args[2])
      [] anno.k = "tuple" ->
            /\ value.t = "tuple"
            /\ Len(value.items) >= Len(anno.args)
            /\ anno.ell \/ Len(value.items) = Len(anno.args)
            /\ \A i \in 1..Len(value.items) :
                  InstanceOf(value.items[i],
                             anno.args[IF i <= Len(anno.args) THEN i ELSE Len(anno.args)])
      [] OTHER -> value.t = anno.k

\* the alternatives of the union whose validator returns for the value
Succeeding(anno, typecast, value) ==
    {i \in 1..Len(anno.args) :
        Call(ArgValidator(anno, i, typecast), value, TYPE_VALIDATORS).exc = ""}

\* C12: the validator of a field declared as a union, typecasting disabled,
\* returns a value unchanged when it is an instance of at least one
\* alternative; every other value is rejected with a validation error of kind
\* parse_union located at the field, and that after every alternative's
\* validator has failed: when one succeeds, the first that does gives the
\* result.
C12_UnionField ==
    (last.op = "field" /\ last.anno.k = "Union" /\ ~last.typecast) =>
        /\ InstanceOf(last.value, last.anno) =>
              last.r.exc = "" /\ last.r.value = last.value
        /\ ~InstanceOf(last.value, last.anno) =>
              /\ last.r.exc = "FieldValidationError"
              /\ last.r.etype = "parse_union"
              /\ last.r.path = <<"a">>
              /\ Succeeding(last.anno, FALSE, last.value) = {}
        /\ \A i \in Succeeding(last.anno, FALSE, last.value) :
              (\A j \in 1..(i - 1) : j \notin Succeeding(last.anno, FALSE, last.value))
                  => last.r = Call(ArgValidator(last.anno, i, FALSE), last.value,
                                   TYPE_VALIDATORS)

\* a union field was given a non-empty list that is an instance of its second
\* alternative only, and returned it
C12_Witness ==
    /\ last.op = "field" /\ last.anno.k = "Union" /\ ~last.typecast
    /\ last.anno.args[2].k = "list"
    /\ last.value.t = "list" /\ last.value.items # <<>>
    /\ ~InstanceOf(last.value, last.anno.args[1])
    /\ last.r.exc = "" /\ last.r.value = last.value

\* the outcome of validating item i of a tuple declared as anno: with the
\* validator of its position, or the last one for the items past the positions
ItemResult(anno, typecast, items, i) ==
    Call(ArgValidator(anno, IF i <= Len(anno.args) THEN i ELSE Len(anno.args), typecast),
         items[i], TYPE_VALIDATORS)

\* the validator raised ValidationError with the given etype
Rejected(r, etype) == r.exc = "ValidationError" /\ r.etype = etype

\* C13: the tuple validator for n positional element types rejects, with
\* typecasting disabled, whatever is not a tuple; it rejects a tuple of fewer
\* than n items and, without an Ellipsis, one of more than n items; otherwise
\* item i is validated by the i-th validator, the items past the n-th by the
\* last validator, the call fails when an item fails, and else returns the
\* tuple of the validated items in order.
C13_TupleValidator ==
    (last.op = "type" /\ last.anno.k = "tuple") =>
        LET n == Len(last.anno.args)
            v == last.value
        IN /\ (~last.typecast /\ v.t # "tuple") => Rejected(last.r, "parse_tuple")
           /\ (v.t = "tuple" /\ Len(v.items) < n) => Rejected(last.r, "parse_tuple")
           /\ (v.t = "tuple" /\ ~last.anno.ell /\ Len(v.items) > n) =>
                 Rejected(last.r, "parse_tuple")
           /\ (v.t = "tuple" /\ Len(v.items) >= n /\ (last.anno.ell \/ Len(v.items) = n)) =>
                 IF \E i \in 1..Len(v.items) :
                       ItemResult(last.anno, last.typecast, v.items, i).exc # ""
                 THEN last.r.exc # ""
                 ELSE /\ last.r.exc = ""
                      /\ last.r.value =
                            TupleV([i \in 1..Len(v.items) |->
                                ItemResult(last.anno, last.typecast, v.items, i).value])

\* Tuple[str, ...] with typecasting took a tuple of two items that are no
\* texts and returned the tuple of their texts
C13_Witness ==
    /\ last.op = "type" /\ last.anno = Anno("tuple", <<str>>, TRUE) /\ last.typecast
    /\ last.value.t = "tuple" /\ Len(last.value.items) = 2
    /\ \A i \in 1..2 : last.value.items[i].t # "str"
    /\ last.r.exc = "" /\ last.r.value # last.value

\* C14: the validator of List[x] and Set[x]: with typecasting disabled it
\* rejects whatever is not an instance of the declared container (List[x] a
\* tuple or a set, Set[x] a list or a tuple); it always rejects texts and
\* values that cannot be iterated; it validates every element with the
\* validator of x and fails when an element fails (List[int] without
\* typecasting fails on a list holding a text or a float); when it returns,
\* it returns a container of the declared type holding the validated elements.
C14_SeqValidator ==
    (last.op = "type" /\ last.anno.k \in {"list", "set"}) =>
        LET base == last.anno.k
            v == last.value
            items == Iter(v)
            rs == [i \in 1..Len(items) |->
                      ItemResult(last.anno, last.typecast, items, i)]
        IN /\ (~last.typecast /\ v.t # base) => Rejected(last.r, "parse_sequence")
           /\ v.t \in {"str", "int", "float", "NoneType", "obj"} =>
                 Rejected(last.r, "parse_sequence")
           /\ (v.t \in {"list", "tuple", "set"} /\ (last.typecast \/ v.t = base)) =>
                 /\ (\E i \in 1..Len(rs) : rs[i].exc # "") => last.r.exc # ""
                 /\ last.r.exc = "" =>
                       /\ last.r.value.t = base
                       /\ base = "list" =>
                             last.r.value = ListV([i \in 1..Len(rs) |-> rs[i].value])
                       /\ base = "set" =>
                             last.r.value = SetV({rs[i].value : i \in 1..Len(rs)})
           /\ (last.anno = Anno("list", <<int>>, FALSE) /\ ~last.typecast /\ v.t = "list"
               /\ \E i \in 1..Len(items) : items[i].t \in {"str", "float"}) =>
                 last.r.exc = "ValidationError"

\* Set[float] with typecasting took a list of one number and returned the set
\* holding that number as a float
C14_Witness ==
    /\ last.op = "type" /\ last.anno = Anno("set", <<float>>, FALSE) /\ last.typecast
    /\ last.value = ListV(<<IntV(1)>>)
    /\ last.r.exc = "" /\ last.r.value = SetV({FloatV(2)})

\* C15: every call of a compiled validator, for every declared type, value
\* and typecast setting, returns a value or raises ValidationError (or its
\* subclass FieldValidationError); no other exception reaches the caller.
C15_StructuredRejection ==
    last.op \in {"type", "field"} =>
        last.r.exc \in {"", "ValidationError", "FieldValidationError"}

\* no Union occurs in the declared type
RECURSIVE UnionFree(_)
UnionFree(anno) ==
    /\ anno.k # "Union"
    /\ \A i \in 1..Len(anno.args) : UnionFree(anno.args[i])

\* validating value against the declared type fails
Fails(anno, typecast, value) ==
    Call(type_validator(anno, typecast, TYPE_VALIDATORS), value, TYPE_VALIDATORS).exc # ""

\* the first of the items that fails the validator of its position, 0 if none
FirstFailing(anno, typecast, items) ==
    LET na == Len(anno.args)
        failing == {i \in 1..Len(items) :
                       Fails(anno.args[IF i <= na THEN i ELSE na], typecast, items[i])}
    IN IF failing = {} THEN 0 ELSE CHOOSE i \in failing : \A j \in failing : i <= j

\* the elements of value that the validator of the declared container visits
\* (none when the container itself is refused)
Visited(anno, typecast, value) ==
    CASE anno.k \in {"list", "set"} ->
            IF is_sequence(value) /\ (typecast \/ value.t = anno.k)
            THEN Iter(value) ELSE <<>>
      [] anno.k = "tuple" ->
            LET items == IF value.t = "tuple" THEN value.items
                         ELSE IF typecast /\ ToTuple(value).exc = ""
                         THEN ToTuple(value).value.items ELSE <<>>
            IN IF Len(items) < Len(anno.args)
                  \/ (~anno.ell /\ Len(items) > Len(anno.args))
               THEN <<>> ELSE items
      [] OTHER -> <<>>

\* where validation of value against the declared type fails, outermost
\* first: the index of the first failing item of a list, set or tuple, the key
\* of the first failing entry of a dict (its key or its value failing), then
\* the location inside that element
RECURSIVE Location(_, _, _)
Location(anno, typecast, value) ==
    IF anno.k = "dict"
    THEN LET bad == IF value.t # "dict" THEN {}
                    ELSE {i \in 1..Len(value.pairs) :
                             \/ Fails(anno.args[1], typecast, value.pairs[i][1])
                             \/ Fails(anno.args[2], typecast, value.pairs[i][2])}
         IN IF bad = {} THEN <<>>
            ELSE LET i == CHOOSE b \in bad : \A c \in bad : b <= c
                     p == value.pairs[i]
                 IN <<Repr(p[1], FALSE)>> \o
                    (IF Fails(anno.args[1], typecast, p[1])
                     THEN Location(anno.args[1], typecast, p[1])
                     ELSE Location(anno.args[2], typecast, p[2]))
    ELSE LET items == Visited(anno, typecast, value)
             n == FirstFailing(anno, typecast, items)
             na == Len(anno.args)
         IN IF n = 0 THEN <<>>
            ELSE <<Index(n)>> \o
                 Location(anno.args[IF n <= na THEN n ELSE na], typecast, items[n])

\* C16: the path of a failure of field a names the failing location outermost
\* first: the field, then for every enclosing container the index (list, set,
\* tuple) or key (dict, whether the key or its value failed) of the element
\* that holds the failure.
C16_FailurePath ==
    (last.op = "field" /\ last.r.exc = "FieldValidationError" /\ UnionFree(last.anno)) =>
        last.r.path = <<"a">> \o Location(last.anno, last.typecast, last.value)

-----------------------------------------------------------------------------
(* extensions/serde/serde.py and extensions/validate/__init__.py:           *)
(* structural conversion of record instances                                *)

\* a field with serde metadata (serde.py 331-346): rename is "" for None
SerdeField(name, anno, default, rename, skip) ==
    [name |-> name, anno |-> anno, default |-> default, default_factory |-> FALSE,
     metadata |-> [serde_rename |-> rename, serde_skip |-> skip]]

\* the declared type that is the record class c, and List[x]
RecordT(c) == Anno(c, <<>>, FALSE)

ListT(x) == Anno("list", <<x>>, FALSE)

\* the record classes converted and the FIELD_ATTR of each:
\*   A: a: int; b: str = 'q' (rename 'bee')     B: x: int
\*   O1: a: A      O2: a: A; b: B      O3: items: List[B]     O4: b: B; c: B
\*   S: a: int; s: int = 0 (skip)
\*   ROO, RRO, OOO, RRR, RSO: three int fields f1 f2 f3, R without a default,
\*   O with the default 0, S with the default 0 and skip
SeqFields(kinds) ==
    [i \in 1..Len(kinds) |->
        SerdeField("f" \o ToString(i), int,
                   IF kinds[i] = "R" THEN MISSING ELSE IntV(0), "", kinds[i] = "S")]

SerdeClasses ==
    [A   |-> <<SerdeField("a", int, MISSING, "", FALSE),
               SerdeField("b", str, StrV("q"), "bee", FALSE)>>,
     B   |-> <<SerdeField("x", int, MISSING, "", FALSE)>>,
     O1  |-> <<SerdeField("a", RecordT("A"), MISSING, "", FALSE)>>,
     O2  |-> <<SerdeField("a", RecordT("A"), MISSING, "", FALSE),
               SerdeField("b", RecordT("B"), MISSING, "", FALSE)>>,
     O3  |-> <<SerdeField("items", ListT(RecordT("B")), MISSING, "", FALSE)>>,
     O4  |-> <<SerdeField("b", RecordT("B"), MISSING, "", FALSE),
               SerdeField("c", RecordT("B"), MISSING, "", FALSE)>>,
     S   |-> <<SerdeField("a", int, MISSING, "", FALSE),
               SerdeField("s", int, IntV(0), "", TRUE)>>,
     ROO |-> SeqFields(<<"R", "O", "O">>),
     RRO |-> SeqFields(<<"R", "R", "O">>),
     OOO |-> SeqFields(<<"O", "O", "O">>),
     RRR |-> SeqFields(<<"R", "R", "R">>),
     RSO |-> SeqFields(<<"R", "S", "O">>)]

\* an instance of record class c with the given attributes
Inst(c, attrs) == [t |-> "inst", cls |-> c, attrs |-> attrs]

\* dataclass.is_dataclass on a declared type: hasattr(cls, FIELD_ATTR)
is_dataclass(anno) == anno.k \in DOMAIN SerdeClasses

FieldNames(c) == {SerdeClasses[c][i].name : i \in 1..Len(SerdeClasses[c])}

FieldNamed(c, name) ==
    SerdeClasses[c][CHOOSE i \in 1..Len(SerdeClasses[c]) : SerdeClasses[c][i].name = name]

\* serde.skip_field: the metadata of the modelled fields holds serde_skip only
skip_field(f, value) == f.metadata.serde_skip

\* serde._has_skip
_has_skip(f) == IF f.metadata.serde_skip THEN 0 - 1 ELSE 2

\* field.metadata.get(RENAME_ATTR) or field.name
KeyOf(f) == IF f.metadata.serde_rename # "" THEN f.metadata.serde_rename ELSE f.name

\* output[name] = value on the pairs of a dict
DictPut(pairs, k, w) ==
    IF \E i \in 1..Len(pairs) : pairs[i][1] = k
    THEN [i \in 1..Len(pairs) |-> IF pairs[i][1] = k THEN <<k, w>> ELSE pairs[i]]
    ELSE Append(pairs, <<k, w>>)

\* serde._get_dataclasses: the record classes of the instance and, breadth
\* first, of its fields' declared types, each inserted at the front
RECURSIVE get_dataclasses_loop(_, _)
get_dataclasses_loop(start, final) ==
    IF start = <<>> THEN final
    ELSE IF ~is_dataclass(Head(start)) THEN get_dataclasses_loop(Tail(start), final)
    ELSE LET fs == SerdeClasses[Head(start).k]
         IN get_dataclasses_loop(Tail(start) \o [i \in 1..Len(fs) |-> fs[i].anno],
                                 <<Head(start).k>> \o final)

_get_dataclasses(obj) == get_dataclasses_loop(<<RecordT(obj.cls)>>, <<>>)

\* the factory made by serde._gen_dict_factory(cls) applied to items
RECURSIVE dict_factory_loop(_, _, _)
dict_factory_loop(c, items, output) ==
    IF items = <<>> THEN Return(DictV(output))
    ELSE LET name == Head(items)[1]
             value == Head(items)[2]
         IN IF name \notin FieldNames(c)
            THEN Raise("KeyError", value, "Unexpected Key")
            ELSE IF skip_field(FieldNamed(c, name), value)
            THEN dict_factory_loop(c, Tail(items), output)
            ELSE dict_factory_loop(c, Tail(items),
                     DictPut(output, StrV(KeyOf(FieldNamed(c, name))), value))

_gen_dict_factory(c, items) == dict_factory_loop(c, items, <<>>)

\* to_dict's dict_factory: the next of the factories made for the classes of
\* _get_dataclasses takes the items; out of factories it raises ValueError
dict_factory(items, factories) ==
    IF factories = <<>>
    THEN [r |-> Raise("ValueError", NoneV, "Unexpected Items"), factories |-> <<>>]
    ELSE [r |-> _gen_dict_factory(Head(factories), items), factories |-> Tail(factories)]

\* dataclass._asdict_inner with to_dict's dict_factory: an instance has its
\* fields converted in order and then its items handed to the factory; a list
\* or tuple has its items converted in order; anything else is copied.  The
\* factories still unused are threaded through.
RECURSIVE _asdict_inner(_, _)
RECURSIVE asdict_fields(_, _, _, _)
RECURSIVE asdict_items(_, _, _, _)
asdict_fields(obj, i, result, factories) ==
    IF i > Len(SerdeClasses[obj.cls]) THEN dict_factory(result, factories)
    ELSE LET name == SerdeClasses[obj.cls][i].name
             inner == _asdict_inner(obj.attrs[name], factories)
         IN IF inner.r.exc # "" THEN inner
            ELSE asdict_fields(obj, i + 1, Append(result, <<name, inner.r.value>>),
                               inner.factories)

asdict_items(obj, i, result, factories) ==
    IF i > Len(obj.items)
    THEN [r |-> Return([obj EXCEPT !.items = result]), factories |-> factories]
    ELSE LET inner == _asdict_inner(obj.items[i], factories)
         IN IF inner.r.exc # "" THEN inner
            ELSE asdict_items(obj, i + 1, Append(result, inner.r.value), inner.factories)

_asdict_inner(obj, factories) ==
    CASE obj.t = "inst" -> asdict_fields(obj, 1, <<>>, factories)
      [] obj.t \in {"list", "tuple"} -> asdict_items(obj, 1, <<>>, factories)
      [] OTHER -> [r |-> Return(obj), factories |-> factories]

\* serde.to_dict
to_dict(obj) == _asdict_inner(obj, _get_dataclasses(obj)).r

\* serde.validate_serde: the error it raises for the fields of class c, "" if
\* none (a rename already reserved; a skip rule on a field without default)
validate_serde(c) ==
    LET fs == SerdeClasses[c]
    IN IF \/ \E i, j \in 1..Len(fs) : i < j /\ KeyOf(fs[i]) = KeyOf(fs[j])
          \/ \E i \in 1..Len(fs) : fs[i].metadata.serde_skip /\ ~has_default(fs[i])
       THEN "ValueError" ELSE ""

\* cls(**attrs) through the generated __init__ of a class whose fields all
\* take part in it: a field without default must be given
InitKw(c, attrs) ==
    LET fs == SerdeClasses[c]
    IN IF \E i \in 1..Len(fs) : ~has_default(fs[i]) /\ fs[i].name \notin DOMAIN attrs
       THEN Raise("TypeError", NoneV, "missing required argument")
       ELSE Return(Inst(c, [n \in FieldNames(c) |->
                IF n \in DOMAIN attrs THEN attrs[n] ELSE FieldNamed(c, n).default]))

\* list.insert(pos, x), pos counted from 0
Insert(s, pos, x) ==
    LET p == IF pos > Len(s) THEN Len(s) ELSE pos
    IN SubSeq(s, 1, p) \o <<x>> \o SubSeq(s, p + 1, Len(s))

\* while len(required) < len(values): pos, field = optional.pop(0);
\* required.insert(pos, field)       (optional holds the 0-based positions)
RECURSIVE back_fill(_, _, _, _)
back_fill(fs, required, optional, n) ==
    IF Len(required) >= n THEN required
    ELSE back_fill(fs, Insert(required, Head(optional) - 1, fs[Head(optional)]),
                   Tail(optional), n)

Positions(fs, Test(_)) == SelectSeq([i \in 1..Len(fs) |-> i], LAMBDA i : Test(fs[i]))

\* serde.from_sequence 176-182: the fields that take n values, n fewer than
\* the fields: the fields without default, then optional fields by
\* descending _has_skip (the sort is stable) inserted at their positions
serde_fields(fs, n) ==
    LET required == SelectSeq(fs, LAMBDA f : ~has_default(f))
        optional == Positions(fs, LAMBDA f : has_default(f) /\ _has_skip(f) = 2)
                    \o Positions(fs, LAMBDA f : has_default(f) /\ _has_skip(f) = 1)
                    \o Positions(fs, LAMBDA f : has_default(f) /\ _has_skip(f) = 0 - 1)
    IN back_fill(fs, required, optional, n)

\* validate.from_sequence 128-134: required are the fields that have a default,
\* optional the fields that have none
validate_fields(fs, n) ==
    LET required == SelectSeq(fs, LAMBDA f : has_default(f))
        optional == Positions(fs, LAMBDA f : ~has_default(f))
    IN back_fill(fs, required, optional, n)

\* from_sequence, from_mapping and _parse_object of the serde layer
\* (impl = "serde") and of the validate layer (impl = "validate")
RECURSIVE from_sequence(_, _, _, _)
RECURSIVE from_mapping(_, _, _, _)
RECURSIVE zip_loop(_, _, _, _, _, _, _)
RECURSIVE items_loop(_, _, _, _, _)
_parse_object(impl, anno, value, allow_unknown) ==
    IF is_dataclass(anno) /\ is_sequence(value)
    THEN from_sequence(impl, anno.k, value, allow_unknown)
    ELSE IF is_dataclass(anno) /\ value.t = "dict"
    THEN from_mapping(impl, anno.k, value, allow_unknown)
    ELSE Return(value)

\* for field, value in zip(fields, values): attrs[field.name] = ...
zip_loop(impl, c, fs, items, allow_unknown, i, attrs) ==
    IF i > Len(fs) \/ i > Len(items) THEN InitKw(c, attrs)
    ELSE LET r == _parse_object(impl, fs[i].anno, items[i], allow_unknown)
         IN IF r.exc # "" THEN r
            ELSE IF impl = "serde" /\ skip_field(fs[i], r.value)
            THEN zip_loop(impl, c, fs, items, allow_unknown, i + 1, attrs)
            ELSE zip_loop(impl, c, fs, items, allow_unknown, i + 1,
                          FunSet(attrs, fs[i].name, r.value))

from_sequence(impl, c, values, allow_unknown) ==
    LET fs == SerdeClasses[c]
        items == Iter(values)
    IN IF impl = "serde" /\ validate_serde(c) # ""
       THEN Raise(validate_serde(c), values, "serde")
       ELSE IF Len(items) > Len(fs)
       THEN Raise("TypeError", values, "sequence contains too many values.")
       ELSE zip_loop(impl, c,
                IF Len(items) >= Len(fs) THEN fs
                ELSE IF impl = "serde" THEN serde_fields(fs, Len(items))
                ELSE validate_fields(fs, Len(items)),
                items, allow_unknown, 1, <<>>)

\* serde.field_dict: the keys under which the fields of c are looked up
field_dict(impl, c) ==
    IF impl = "serde" THEN {KeyOf(SerdeClasses[c][i]) : i \in 1..Len(SerdeClasses[c])}
    ELSE FieldNames(c)

FieldKeyed(impl, c, key) ==
    LET fs == SerdeClasses[c]
        hits == {i \in 1..Len(fs) : (IF impl = "serde" THEN KeyOf(fs[i]) ELSE fs[i].name) = key}
    IN fs[CHOOSE i \in hits : \A j \in hits : j <= i]

\* for key, value in values.items(): ...
items_loop(impl, c, pairs, allow_unknown, attrs) ==
    IF pairs = <<>> THEN InitKw(c, attrs)
    ELSE LET key == Head(pairs)[1]
             known == key.t = "str" /\ key.s \in field_dict(impl, c)
             f == FieldKeyed(impl, c, key.s)
             r == _parse_object(impl, f.anno, Head(pairs)[2], allow_unknown)
         IN IF ~known
            THEN IF allow_unknown
                 THEN items_loop(impl, c, Tail(pairs), allow_unknown, attrs)
                 ELSE Raise("KeyError", key, "Unknown Key")
            ELSE IF r.exc # "" THEN r
            ELSE IF impl = "serde" /\ skip_field(f, r.value)
            THEN items_loop(impl, c, Tail(pairs), allow_unknown, attrs)
            ELSE items_loop(impl, c, Tail(pairs), allow_unknown,
                            FunSet(attrs, f.name, r.value))

from_mapping(impl, c, values, allow_unknown) ==
    IF impl = "serde" /\ validate_serde(c) # ""
    THEN Raise(validate_serde(c), values, "serde")
    ELSE items_loop(impl, c, values.pairs, allow_unknown, <<>>)

-----------------------------------------------------------------------------
(* Conversions: to_dict, from_mapping and from_sequence on record instances *)

MaxItems == 2

MaxSeq == 4

Ints == {IntV(1), IntV(2)}

InstA == {Inst("A", ("a" :> i) @@ ("b" :> w)) : i \in Ints, w \in {StrV("q"), StrV("z")}}

InstB == {Inst("B", "x" :> i) : i \in Ints}

\* the instances converted
Instances ==
    InstA \cup InstB
    \cup {Inst("O1", "a" :> a) : a \in InstA}
    \cup {Inst("O2", ("a" :> a) @@ ("b" :> b)) : a \in InstA, b \in InstB}
    \cup {Inst("O3", "items" :> ListV(l)) : l \in SeqsUpTo(InstB, MaxItems)}
    \cup {Inst("O4", ("b" :> b) @@ ("c" :> c)) : b \in InstB, c \in InstB}
    \cup {Inst("S", ("a" :> i) @@ ("s" :> j)) : i \in Ints, j \in {IntV(0), IntV(1)}}

\* the mappings parsed: what to_dict returns, and mappings with the field
\* name of a renamed field, an unknown key or nothing
Mappings ==
    {to_dict(x).value : x \in {y \in Instances : to_dict(y).exc = ""}}
    \cup {DictV(<<>>), DictV(<<<<StrV("a"), IntV(1)>>, <<StrV("b"), StrV("z")>>>>),
          DictV(<<<<StrV("a"), IntV(1)>>, <<StrV("zz"), IntV(1)>>>>),
          DictV(<<<<StrV("a"), ListV(<<IntV(1), StrV("z")>>)>>>>)}

\* the sequences parsed: numbers, and one sequence holding a sequence
Sequences ==
    {ListV(l) : l \in SeqsUpTo(Ints, MaxSeq)}
    \cup {TupleV(<<ListV(<<IntV(1)>>)>>), TupleV(<<DictV(<<<<StrV("a"), IntV(1)>>>>)>>)}

Impls == {"serde", "validate"}

\* to_dict(x)
ToDict(x) ==
    /\ last' = [op |-> "to_dict", x |-> x, r |-> to_dict(x)]
    /\ UNCHANGED <<classvars, objs, calls>>

\* from_mapping(type(x), to_dict(x)) of the serde layer
RoundTrip(x) ==
    /\ last' = [op |-> "round_trip", x |-> x, d |-> to_dict(x),
                r |-> IF to_dict(x).exc # "" THEN to_dict(x)
                      ELSE from_mapping("serde", x.cls, to_dict(x).value, FALSE)]
    /\ UNCHANGED <<classvars, objs, calls>>

\* from_mapping(cls, values, allow_unknown=...)
FromMapping(impl, c, values, allow_unknown) ==
    /\ last' = [op |-> "from_mapping", impl |-> impl, cls |-> c, values |-> values,
                allow_unknown |-> allow_unknown,
                r |-> from_mapping(impl, c, values, allow_unknown)]
    /\ UNCHANGED <<classvars, objs, calls>>

\* from_sequence(cls, values)
FromSequence(impl, c, values) ==
    /\ last' = [op |-> "from_sequence", impl |-> impl, cls |-> c, values |-> values,
                r |-> from_sequence(impl, c, values, FALSE)]
    /\ UNCHANGED <<classvars, objs, calls>>

InitSerde == InitWith(<<>>, <<>>, {}, {})

NextSerde ==
    /\ last = NoLast
    /\ \/ \E x \in Instances : ToDict(x) \/ RoundTrip(x)
       \/ \E impl \in Impls, c \in {"A", "B", "O1", "S"}, values \in Mappings,
             allow_unknown \in BOOLEAN : FromMapping(impl, c, values, allow_unknown)
       \/ \E impl \in Impls, c \in {"ROO", "RRO", "OOO", "RRR", "RSO", "O1"},
             values \in Sequences : FromSequence(impl, c, values)

SpecSerde == InitSerde /\ [][NextSerde]_vars

\* no field of the class, or of a record class among its fields' declared
\* types, has a skip rule
RECURSIVE NoSkipRule(_)
NoSkipRule(anno) ==
    IF is_dataclass(anno)
    THEN \A i \in 1..Len(SerdeClasses[anno.k]) :
            /\ ~SerdeClasses[anno.k][i].metadata.serde_skip
            /\ NoSkipRule(SerdeClasses[anno.k][i].anno)
    ELSE \A i \in 1..Len(anno.args) : NoSkipRule(anno.args[i])

\* C17: for a record instance x of a class without skip rules, renamed
\* fields, nested records and lists of records included,
\* from_mapping(type(x), to_dict(x)) completes and returns an instance equal
\* to x.
C17_RoundTrip ==
    (last.op = "round_trip" /\ NoSkipRule(RecordT(last.x.cls))) =>
        last.r = Return(last.x)

\* the positions of the fields that take n values: the fields without
\* default and the first n - r of the fields with a default
Chosen(fs, n) ==
    LET req == {i \in 1..Len(fs) : ~has_default(fs[i])}
        opt == {i \in 1..Len(fs) : has_default(fs[i])}
    IN req \cup {i \in opt : Cardinality({j \in opt : j < i}) < n - Cardinality(req)}

\* the instance whose chosen fields hold the items in field order and whose
\* other fields hold their defaults
Filled(c, items) ==
    LET fs == SerdeClasses[c]
        at == Chosen(fs, Len(items))
    IN Inst(c, [name \in FieldNames(c) |->
            LET i == CHOOSE k \in 1..Len(fs) : fs[k].name = name
            IN IF i \in at THEN items[Cardinality({j \in at : j <= i})]
               ELSE fs[i].default])

\* C18: from_sequence of the serde layer and of the validate layer, given n
\* values for a record of r fields without default, r <= n < number of
\* fields, constructs the instance whose fields without default and first
\* n - r fields with a default are set from the values in field order, the
\* other fields taking their defaults; more values than fields are rejected.
C18_FromSequence ==
    last.op = "from_sequence" =>
        LET fs == SerdeClasses[last.cls]
            n == Len(Iter(last.values))
            r == Cardinality({i \in 1..Len(fs) : ~has_default(fs[i])})
        IN /\ n > Len(fs) => last.r.exc # ""
           /\ (r <= n /\ n < Len(fs)) => last.r = Return(Filled(last.cls, Iter(last.values)))

-----------------------------------------------------------------------------
(* The registry: validators compiled and applied while validators are       *)
(* registered                                                               *)

\* number of registrations, compilations and applications followed
MaxSteps == 5

\* validators.register_validator(anno, Min(m)): TYPE_VALIDATORS.setdefault
\* (anno, []) and TYPE_VALIDATORS[anno].append(validator)
register_validator(reg, anno, m) ==
    IF anno \in DOMAIN reg THEN [reg EXCEPT ![anno] = Append(@, m)]
    ELSE FunSet(reg, anno, <<m>>)

Sum(f) ==
    LET RECURSIVE S(_)
        S(D) == IF D = {} THEN 0
                ELSE LET d == CHOOSE x \in D : TRUE IN f[d] + S(D \ {d})
    IN S(DOMAIN f)

Registered == Sum([a \in DOMAIN TYPE_VALIDATORS |-> Len(TYPE_VALIDATORS[a])])

Applied == Sum([i \in 1..Len(objs) |-> Len(objs[i].results)])

Steps == Registered + Len(objs) + Applied

RegistryAnnos == {int, Anno("list", <<int>>, FALSE)}

RegistryValues == {IntV(1), IntV(2), ListV(<<IntV(2)>>)}

\* register_validator(anno, Min(m))
Register(anno, m) ==
    /\ Steps < MaxSteps
    /\ TYPE_VALIDATORS' = register_validator(TYPE_VALIDATORS, anno, m)
    /\ last' = [op |-> "register", anno |-> anno, m |-> m]
    /\ UNCHANGED <<annos, cattrs, user, cdict, derive, heap, COMPILED, dataf, gen,
                   status, vparams, objs, calls, threads, repr_running>>

\* validator = type_validator(anno, typecast): the function object is kept,
\* with the results of its applications
Compile(anno, typecast) ==
    /\ Steps < MaxSteps
    /\ objs' = Append(objs, [anno |-> anno, typecast |-> typecast,
                             validator |-> type_validator(anno, typecast, TYPE_VALIDATORS),
                             results |-> <<>>])
    /\ last' = [op |-> "compile", anno |-> anno, typecast |-> typecast]
    /\ UNCHANGED <<classvars, calls>>

\* validator(value) for the i-th validator kept: a chain walks the list that
\* TYPE_VALIDATORS holds for its type when it is called
Apply(i, value) ==
    /\ Steps < MaxSteps
    /\ objs' = [objs EXCEPT ![i].results =
                   Append(@, [value |-> value,
                              r |-> Call(objs[i].validator, value, TYPE_VALIDATORS)])]
    /\ last' = [op |-> "apply", i |-> i, value |-> value]
    /\ UNCHANGED <<classvars, calls>>

InitRegistry == InitWith(<<>>, <<>>, {}, {})

NextRegistry ==
    \/ \E anno \in RegistryAnnos, m \in 1..2 : Register(anno, m)
    \/ \E anno \in RegistryAnnos : Compile(anno, FALSE)
    \/ \E i \in 1..Len(objs), value \in RegistryValues : Apply(i, value)

SpecRegistry == InitRegistry /\ [][NextRegistry]_vars

\* the applications made so far: validator, its declared type and typecast
\* setting, the value and the result
Applications ==
    {[i |-> i, k |-> k] : i \in 1..Len(objs), k \in 1..MaxSteps} \cap
    UNION {{[i |-> i, k |-> k] : k \in 1..Len(objs[i].results)} : i \in 1..Len(objs)}

\* C19: two applications to the same value, of one validator compiled for a
\* declared type or of two validators compiled for the same declared type,
\* both accept or both reject and, when they accept, return equal values.
C19_Repeatable ==
    \A a, b \in Applications :
        LET x == objs[a.i].results[a.k]
            y == objs[b.i].results[b.k]
        IN (/\ objs[a.i].anno = objs[b.i].anno
            /\ objs[a.i].typecast = objs[b.i].typecast
            /\ x.value = y.value) =>
               /\ (x.r.exc = "") = (y.r.exc = "")
               /\ x.r.exc = "" => x.r.value = y.r.value

-----------------------------------------------------------------------------
(* Merge order of the resolved field list *)

\* the field tables merged for cls, root-most ancestor first
Tables(cls) == Heigharchy(heap, DeriveAttr(derive, cls))

\* the names of the first k tables: the names of the tables before, then the
\* names the k-th table adds, in its declaration order
RECURSIVE MergedNames(_, _)
MergedNames(tables, k) ==
    IF k = 0 THEN <<>>
    ELSE MergedNames(tables, k - 1) \o
         SelectSeq(heap[tables[k]].order,
                   LAMBDA n : ~InSeq(MergedNames(tables, k - 1), n))

\* the spec of name in the most-derived table that declares it
MostDerived(tables, name) ==
    LET declaring == {k \in 1..Len(tables) : InSeq(heap[tables[k]].order, name)}
    IN heap[tables[CHOOSE k \in declaring : \A j \in declaring : j <= k]].fields[name]

\* C20: the resolved field list of a class lists the names of its field
\* tables, walked root-most ancestor first, at the position of their first
\* appearance, a new name after all earlier names in its class's declaration
\* order; every name occurs once and carries the spec of the most-derived
\* class that declares it.
C20_MergeOrder ==
    \A cls \in Classes :
        dataf[cls].set =>
            LET tables == Tables(cls)
                names == MergedNames(tables, Len(tables))
                fs == dataf[cls].fields
            IN /\ Len(fs) = Len(names)
               /\ \A i \in 1..Len(fs) :
                     /\ fs[i].name = names[i]
                     /\ fs[i] = MostDerived(tables, names[i])
               /\ \A i, j \in 1..Len(fs) : fs[i].name = fs[j].name => i = j

\* C resolved from two tables: P declares a, C declares b and then a with
\* another spec, and the resolved list is a with C's spec, then b
C20_Witness ==
    /\ dataf["C"].set
    /\ Len(Tables("C")) = 2
    /\ heap[Tables("C")[1]].order = <<"a">>
    /\ heap[Tables("C")[2]].order = <<"b", "a">>
    /\ heap[Tables("C")[1]].fields["a"] # heap[Tables("C")[2]].fields["a"]
    /\ Len(dataf["C"].fields) = 2
    /\ dataf["C"].fields[1] = heap[Tables("C")[2]].fields["a"]
    /\ dataf["C"].fields[2].name = "b"

-----------------------------------------------------------------------------
(* Class-level names: every pair of class bodies of P and C(P) on two names, *)
(* each line a field with or without default or a ClassVar with or without   *)
(* value; P is left plain or decorated, C is decorated with and without      *)
(* ancestor scanning                                                         *)

ClassVarLines == {Req, Dflt, ClsVar, ClsVarDflt}

ClassVarCfgs == {[DefaultCfg EXCEPT !.recurse = r] : r \in BOOLEAN}

InitClassVar ==
    \E bodyP \in Bodies(ClassVarLines), bodyC \in Bodies(ClassVarLines) :
        InitWith(bodyP, bodyC, {}, {})

NextClassVar ==
    \/ \E cfg \in ClassVarCfgs : Decorate("P", cfg)
    \/ \E cfg \in ClassVarCfgs : Decorate("C", cfg)

SpecClassVar == InitClassVar /\ [][NextClassVar]_vars

\* the names a class body annotates ClassVar
ClassVarNames(cls) ==
    {annos[cls][i].name : i \in {j \in 1..Len(annos[cls]) :
                                    annos[cls][j].anno = "ClassVar"}}

\* the names in the order list of a table
OrderNames(struct) == {struct.order[i] : i \in 1..Len(struct.order)}

\* the table parse_fields has built for the class decorated last: the newest
\* table, the class itself being the last base of the loop
OwnTable == Len(heap)

\* the tables reachable from idx through the parent chain, idx included
Reachable(idx) == {Heigharchy(heap, idx)[i] : i \in 1..Len(Heigharchy(heap, idx))}

\* C21: after the decorator has parsed a class, a name its body annotates
\* ClassVar is in no table reachable from the class's own table through the
\* parent chain, the own table included, and is not in the class's resolved
\* list; and in every table the names of the order list are the keys of the
\* field mapping.
C21_ClassVarCancelled ==
    /\ \A t \in 1..Len(heap) : OrderNames(heap[t]) = DOMAIN heap[t].fields
    /\ (last.op = "decorate" /\ heap # <<>>) =>
          \A n \in ClassVarNames(last.cls) :
              /\ \A t \in Reachable(OwnTable) : n \notin DOMAIN heap[t].fields
              /\ \A i \in 1..Len(dataf[last.cls].fields) :
                    dataf[last.cls].fields[i].name # n

\* class P: a: int; b: int was decorated, then C(P): a: ClassVar[int] = 0 with
\* ancestor scanning: the table of P, parent of the table of C, has lost a and
\* kept b, and the resolved list of C is b alone
C21_Witness ==
    /\ last.op = "decorate" /\ last.cls = "C" /\ last.res = "ok"
    /\ status["C"].cfg.recurse /\ status["P"].st = "ok"
    /\ ClassVarNames("C") = {"a"} /\ ClassVarNames("P") = {}
    /\ Len(dataf["P"].fields) = 2
    /\ heap[OwnTable].parent = derive["P"] /\ derive["P"] # 0
    /\ DOMAIN heap[derive["P"]].fields = {"b"}
    /\ heap[derive["P"]].order = <<"b">>
    /\ Len(dataf["C"].fields) = 1 /\ dataf["C"].fields[1].name = "b"

-----------------------------------------------------------------------------
(* The post-construction hook, on the constructions of SpecConstruct         *)

\* the INIT_VAR fields of the resolved list, in resolved order
InitOnly(cls) == SelectSeq(dataf[cls].fields, LAMBDA f : f.field_type = "INIT_VAR")

\* the class has a __post_init__
HasHook(cls) == Kind(cls, "__post_init__") # "absent"

\* the last operation called the generated constructor of the class with
\* arguments that bind to its parameters
ValidCall ==
    /\ last.op = "new" /\ last.res # "TypeError"
    /\ status[last.cls].st = "ok" /\ Kind(last.cls, "__init__") = "gen"

\* the value the constructor call has for the parameter of field f
ArgumentOf(cls, f, pos, kw) ==
    IF Supplied(cls, f, pos, kw) THEN Passed(cls, f, pos, kw) ELSE f.default

\* C22: the generated constructor calls __post_init__ exactly once, after all
\* fields are assigned, when the class has a __post_init__ or the resolved
\* list has InitVar fields, passing the InitVar values by position in
\* resolved order; when neither holds __post_init__ is not called.
C22_PostInitHook ==
    ValidCall =>
        IF HasHook(last.cls) \/ InitOnly(last.cls) # <<>>
        THEN /\ last.res = "ok"
             /\ last.hook = <<[i \in 1..Len(InitOnly(last.cls)) |->
                                 ArgumentOf(last.cls, InitOnly(last.cls)[i],
                                            last.pos, last.kw)]>>
             /\ \A i \in 1..Len(dataf[last.cls].fields) :
                   dataf[last.cls].fields[i].field_type = "STANDARD" =>
                       dataf[last.cls].fields[i].name \in DOMAIN objs[last.o].attrs
        ELSE last.hook = <<>>

-----------------------------------------------------------------------------
(* Default and default factory: class P with two fields, each without        *)
(* default, with a default, with a factory, or declared with both, decorated *)
(* with the defaults and instantiated                                        *)

DefaultLines == {Req, Dflt, Fact, Both, BothNoInit}

InitDefaults ==
    \E t1 \in DefaultLines, t2 \in DefaultLines :
        InitWith(<<[name |-> "a", line |-> t1], [name |-> "b", line |-> t2]>>,
                 <<>>, {}, {})

NextDefaults ==
    \/ Decorate("P", DefaultCfg)
    \/ \E x \in CallArgs : Construct("P", x[1], x[2])

SpecDefaults == InitDefaults /\ [][NextDefaults]_vars

\* C23: no field of a resolved list has both a default and a default factory:
\* a class body that declares a field with both is rejected by the decorator.
C23_DefaultXorFactory ==
    \A cls \in Classes :
        dataf[cls].set =>
            \A i \in 1..Len(dataf[cls].fields) :
                ~(dataf[cls].fields[i].default # MISSING
                  /\ dataf[cls].fields[i].default_factory)

-----------------------------------------------------------------------------
(* Guards and slots: class P: a and class C(P): b, each field plain or        *)
(* declared field(frozen=True), each class decorated with frozen and slots on *)
(* or off; instances are made with the value 1 for every field and their     *)
(* attributes set to MaxVal and deleted                                      *)

GuardCfgs == {[DefaultCfg EXCEPT !.frozen = f, !.slots = s] :
                 f \in BOOLEAN, s \in BOOLEAN}

InitGuards ==
    \E x \in {Req, FrzReq}, y \in {Req, FrzReq} :
        InitWith(<<[name |-> "a", line |-> x]>>, <<[name |-> "b", line |-> y]>>,
                 {}, {})

\* cls(1, ..., 1), one argument for each field of the resolved list
Ones(cls) == [i \in 1..Len(dataf[cls].fields) |-> IntV(1)]

NextGuards ==
    \/ \E cls \in Classes, cfg \in GuardCfgs : Decorate(cls, cfg)
    \/ \E cls \in Classes : Len(objs) < MaxGuarded /\ Construct(cls, Ones(cls), <<>>)
    \/ \E i \in 1..MaxGuarded, n \in Names : SetAttr(i, n, IntV(MaxVal))
    \/ \E i \in 1..MaxGuarded, n \in Names : DelAttr(i, n)

SpecGuards == InitGuards /\ [][NextGuards]_vars

\* the frozen field names of instances of c: the frozen fields declared on
\* the decorated classes of its MRO
FrozenFields(c) ==
    UNION {IF status[Mro(c)[i]].st = "ok" THEN DeclaredFrozen(Mro(c)[i]) ELSE {} :
              i \in 1..Len(Mro(c))}

\* instances of c are set and deleted through a generated guard
Guarded(c) == Kind(c, "__setattr__") = "gen" /\ Kind(c, "__delattr__") = "gen"

\* the step sets the attribute n of instance i, not a frozen field, through
\* the guards
SetsOther(i, n) ==
    /\ last'.op = "set" /\ last'.o = i /\ last'.n = n
    /\ Guarded(objs[i].cls) /\ n \notin FrozenFields(objs[i].cls)

DeletesOther(i, n) ==
    /\ last'.op = "del" /\ last'.o = i /\ last'.n = n
    /\ Guarded(objs[i].cls) /\ n \notin FrozenFields(objs[i].cls)

\* the step constructs an instance of a guarded class c
ConstructsGuarded(c) ==
    /\ last'.op = "new" /\ last'.cls = c /\ Kind(c, "__init__") = "gen"
    /\ Guarded(c)

\* the outcome of object.__delattr__(self, n)
Removed(attrs, n) ==
    IF n \in DOMAIN attrs THEN [err |-> "", attrs |-> FunDel(attrs, n)]
    ELSE [err |-> "AttributeError", attrs |-> attrs]

Outcomes(r) == IF r.err = "" THEN "ok" ELSE r.err

GuardsDelegate ==
    /\ \A i \in 1..Len(objs), n \in Names :
          /\ SetsOther(i, n) =>
                /\ last'.res = Outcomes(StoreAttr(objs[i].cls, objs[i].attrs, n, IntV(MaxVal)))
                /\ objs'[i].attrs = StoreAttr(objs[i].cls, objs[i].attrs, n, IntV(MaxVal)).attrs
          /\ DeletesOther(i, n) =>
                /\ last'.res = Outcomes(Removed(objs[i].attrs, n))
                /\ objs'[i].attrs = Removed(objs[i].attrs, n).attrs
    /\ \A c \in Classes :
          ConstructsGuarded(c) =>
              \/ last'.res = "ok"
                 /\ \A i \in 1..Len(dataf[c].fields) :
                       dataf[c].fields[i].name \notin FrozenFields(c) =>
                           objs'[last'.o].attrs[dataf[c].fields[i].name] = IntV(1)
              \/ last'.res = "FrozenInstanceError"
                 /\ \E i \in 1..Len(dataf[c].fields) :
                       dataf[c].fields[i].name \in FrozenFields(c)

\* C24: on an instance of a class with generated guards, setting or deleting
\* a name that is not a frozen field does what object.__setattr__ and
\* object.__delattr__ do, with the same outcome and the same stored values,
\* under every setting of frozen and slots; and the generated constructor's
\* assignments of non-frozen fields store their values.
C24_GuardsOnlyBlockFrozen == [][GuardsDelegate]_vars

-----------------------------------------------------------------------------
(* The field-table cache: every pair of class bodies of P and C(P) on two    *)
(* names, each field with or without default; each class is decorated with   *)
(* ancestor scanning and slots on or off, and decorated again with ancestor  *)
(* scanning                                                                  *)

CacheLines == {Req, Dflt}

CacheCfgs == {[DefaultCfg EXCEPT !.recurse = r, !.slots = s] :
                 r \in BOOLEAN, s \in BOOLEAN}

InitCache ==
    \E bodyP \in Bodies(CacheLines), bodyC \in Bodies(CacheLines) :
        InitWith(bodyP, bodyC, {}, {})

NextCache ==
    \/ \E cls \in Classes, cfg \in CacheCfgs : Decorate(cls, cfg)
    \/ \E cls \in Classes : Redecorate(cls, [DefaultCfg EXCEPT !.recurse = TRUE])

SpecCache == InitCache /\ [][NextCache]_vars

\* the table of the class is cached: parse_fields has parsed the class, for
\* itself or as the ancestor of a subclass, or add_slots has rebuilt it
Cached(cls) == cls \in COMPILED \/ gen[cls].slotted

\* the step resolves cls with ancestor scanning
Resolves(cls) ==
    /\ last'.op = "decorate" /\ last'.cls = cls
    /\ status'[cls].cfg.recurse

\* the step leaves the table attached to the class k as it is
Reused(k) ==
    /\ derive'[k] = derive[k]
    /\ derive[k] # 0 => heap'[derive[k]] = heap[derive[k]]

CacheTransparent ==
    \A cls \in Classes :
        Resolves(cls) =>
            /\ Cached(cls) =>
                  /\ last'.res = "ok"
                  /\ dataf[cls].set => dataf'[cls] = dataf[cls]
            /\ \A i \in 2..Len(Mro(cls)) :
                  Cached(Mro(cls)[i]) =>
                      /\ Reused(Mro(cls)[i])
                      /\ (last'.res = "ok" /\ dataf[Mro(cls)[i]].set) =>
                            \A j \in 1..Len(dataf[Mro(cls)[i]].fields) :
                                \E l \in 1..Len(dataf'[cls].fields) :
                                    dataf'[cls].fields[l] = dataf[Mro(cls)[i]].fields[j]
                                    \/ \E m \in 1..Len(annos[cls]) :
                                          /\ annos[cls][m].name = dataf'[cls].fields[l].name
                                          /\ annos[cls][m].name = dataf[Mro(cls)[i]].fields[j].name

\* C25: with ancestor scanning, resolving a class whose table is cached (the
\* class was resolved or scanned before, or add_slots rebuilt it) succeeds
\* and gives the resolved list of the first resolution; a cached ancestor's
\* table is reused as it is and its fields, unless the class declares the
\* name anew, enter the class's resolved list with the same defaults.
C25_CacheTransparent == [][CacheTransparent]_vars

-----------------------------------------------------------------------------
(* Concurrent resolution: class P: a, its subclasses C(P): b and E(P): b,    *)
(* fields with and without default, P also without fields; two threads each *)
(* run parse_fields(cls, recurse=True), on the same subclass or on the two,  *)
(* and then flatten_fields; a thread switch may come between any two of: the *)
(* pop of a base, the test of COMPILED, the insertion into COMPILED, the     *)
(* construction of the base's table, and its attachment                      *)

ThreadClasses == {"C", "E"}

Threads == {1, 2}

\* the outcome of flatten_fields(parse_fields(...)): [err, fields]
Resolved(ps) ==
    IF ps.err # "" THEN [err |-> ps.err, fields |-> <<>>]
    ELSE flatten_fields(ps.heap, ps.cur, TRUE)

\* parse_fields(cls, recurse=True) run alone, from the present state and from
\* the state another run has left
Alone(cls) == parse_fields(cls, TRUE, annos, cattrs, derive, heap, COMPILED)

Following(cls, ps) ==
    parse_fields(cls, TRUE, annos, ps.cattrs, ps.derive, ps.heap, ps.compiled)

\* the table attached to class k, an empty table standing for none
TableOf(ps, k) == IF ps.derive[k] = 0 THEN ClassStruct(0) ELSE ps.heap[ps.derive[k]]

\* the call parse_fields(cls, recurse=True) about to start in a thread, the
\* other thread resolving `other`; expect and ancestor keep, for comparison,
\* what the two calls give when one runs after the other, in either order
ThreadStart(cls, other) ==
    [cls |-> cls, pc |-> "pop", bases |-> Mro(cls), base |-> "", cur |-> 0,
     res |-> [err |-> "", fields |-> <<>>],
     expect |-> {Resolved(Alone(cls)), Resolved(Following(cls, Alone(other)))},
     ancestor |-> {TableOf(Following(other, Alone(cls)), "P"),
                   TableOf(Following(cls, Alone(other)), "P")}]

ThreadBodies ==
    {[c \in {"P", "C", "E"} |->
         IF c = "P" THEN p ELSE IF c = "C" THEN <<[name |-> "b", line |-> x]>>
         ELSE <<[name |-> "b", line |-> y]>>] :
       p \in {<<>>, <<[name |-> "a", line |-> Req]>>, <<[name |-> "a", line |-> Dflt]>>},
       x \in {Req, Dflt}, y \in {Req, Dflt}}

InitThreads ==
    \E body \in ThreadBodies, c1 \in ThreadClasses, c2 \in ThreadClasses :
        InitOver(body, <<ThreadStart(c1, c2), ThreadStart(c2, c1)>>)

\* what parse_fields running in thread t sees: the shared COMPILED, heap,
\* class attributes and its own variable `fields`
Seen(t) ==
    [heap |-> heap, derive |-> derive, cattrs |-> cattrs, compiled |-> COMPILED,
     cur |-> threads[t].cur, err |-> ""]

ThreadShares(ps) ==
    /\ heap' = ps.heap
    /\ derive' = ps.derive
    /\ cattrs' = ps.cattrs
    /\ COMPILED' = ps.compiled
    /\ UNCHANGED <<annos, user, cdict, dataf, gen, status, objs, calls, last,
                   vparams, TYPE_VALIDATORS, repr_running>>

\* parse.py 53-58: base = bases.pop()
PopBase(t) ==
    /\ threads[t].pc = "pop" /\ threads[t].bases # <<>>
    /\ threads' = [threads EXCEPT ![t].pc = "test",
                            ![t].base = threads[t].bases[Len(threads[t].bases)],
                            ![t].bases = SubSeq(@, 1, Len(@) - 1)]
    /\ ThreadShares(Seen(t))

\* parse.py 59-61: if recurse and hash(base) in COMPILED: continue
TestCompiled(t) ==
    /\ threads[t].pc = "test"
    /\ threads' = [threads EXCEPT ![t].pc = IF threads[t].base \in COMPILED THEN "pop"
                                      ELSE "insert"]
    /\ ThreadShares(Seen(t))

\* parse.py 62: COMPILED.add(hash(base))
AddCompiled(t) ==
    /\ threads[t].pc = "insert"
    /\ threads' = [threads EXCEPT ![t].pc = "build"]
    /\ ThreadShares([Seen(t) EXCEPT !.compiled = @ \cup {threads[t].base}])

\* the exception leaves parse_fields
Raised(th, err) == [th EXCEPT !.pc = "done", !.res = [err |-> err, fields |-> <<>>]]

\* parse.py 63-90: the table of the base is made, its parent the table found
\* on the base, and filled from the annotations
BuildTable(t) ==
    /\ threads[t].pc = "build"
    /\ LET ps == ParseAnnos(NewTable(Seen(t), threads[t].base), threads[t].base,
                            annos[threads[t].base], 1)
       IN /\ threads' = [threads EXCEPT ![t] =
                        IF ps.err # "" THEN Raised(@, ps.err)
                        ELSE [@ EXCEPT !.pc = "attach", !.cur = ps.cur]]
          /\ ThreadShares(ps)

\* parse.py 91-93: if fields.fields: setattr(base, DERIVE_ATTR, fields)
AttachBase(t) ==
    /\ threads[t].pc = "attach"
    /\ threads' = [threads EXCEPT ![t].pc = "pop"]
    /\ ThreadShares(AttachTable(Seen(t), threads[t].base))

\* parse.py 94-100 and the caller's flatten_fields(struct)
Finish(t) ==
    /\ threads[t].pc = "pop" /\ threads[t].bases = <<>>
    /\ LET ps == ParseEnd(Seen(t), threads[t].cls)
       IN /\ threads' = [threads EXCEPT ![t].pc = "done", ![t].res = Resolved(ps)]
          /\ ThreadShares(ps)

NextThreads ==
    \E t \in Threads :
        PopBase(t) \/ TestCompiled(t) \/ AddCompiled(t) \/ BuildTable(t) \/ AttachBase(t) \/ Finish(t)

SpecThreads == InitThreads /\ [][NextThreads]_vars

AllDone == \A t \in Threads : threads[t].pc = "done"

\* C26: when two threads resolve, with ancestor scanning, the same class or
\* two subclasses of an unresolved ancestor, then under every interleaving
\* of the steps of parse_fields each thread gets a resolved list that it gets
\* when the two resolutions run one after the other, and the table left on
\* the ancestor is the one the sequential runs leave.
C26_ConcurrentResolution ==
    /\ \A t \in Threads : threads[t].pc = "done" => threads[t].res \in threads[t].expect
    /\ AllDone => \A t \in Threads :
                      TableOf(Seen(t), "P") \in threads[t].ancestor

-----------------------------------------------------------------------------
(* The generated __repr__ under reprlib.recursive_repr: class P: a, b, each  *)
(* field printed or declared field(repr=False); instances of P are made and  *)
(* their attributes set to instances, themselves included; then two threads  *)
(* call repr, a thread switch possible before each field and each return     *)

\* a reference to the instance objs[i]; the fill value of recursive_repr
RefV(i) == [t |-> "ref", v |-> i]

Ellipsis == [t |-> "...", v |-> 0]

NoResult == [t |-> "none", v |-> 0]

ReprThreads == {1, 2}

\* a key that leaves the thread out
ReprKey_per_instance(k, i, t) == <<k, i, 0>>

\* key = id(self), get_ident() in the wrapper made for the __repr__ of class k
ReprKey(k, i, t) == <<k, i, t>>

\* the text self.__class__.__qualname__ + "(name=value, ...)" as its parts
Text(cls, items) == [t |-> "repr", cls |-> cls, items |-> items]

\* the caller of a returning call gets val: the f-string of the frame below
\* takes it as the text of its field, the thread takes it as the result
Deliver(th, names, val) ==
    IF th.stack = <<>> THEN [th EXCEPT !.res = val]
    ELSE [th EXCEPT !.stack[Len(th.stack)].items =
                        Append(@, [name |-> names[th.stack[Len(th.stack)].at],
                                   val |-> val]),
                    !.stack[Len(th.stack)].at = @ + 1]

\* the names the frame's __repr__ prints
FrameNames(th) ==
    IF th.stack = <<>> THEN <<>> ELSE gen[th.stack[Len(th.stack)].k].repr

\* repr(objs[i]) called in thread t: the wrapper returns the fill value when
\* its key is in repr_running, and else adds the key and calls the generated
\* function; [th, running]
Enter(th, running, i, t) ==
    LET k == Provider(objs[i].cls, "__repr__")
    IN IF ReprKey(k, i, t) \in running
       THEN [th |-> Deliver(th, FrameNames(th), Ellipsis), running |-> running]
       ELSE [th |-> [th EXCEPT !.stack = Append(@, [o |-> i, k |-> k, at |-> 1,
                                                    items |-> <<>>])],
             running |-> running \cup {ReprKey(k, i, t)}]

\* the generated function returns: the wrapper discards the key and hands
\* the text on
Leave(th, running, t) ==
    LET f == th.stack[Len(th.stack)]
        below == [th EXCEPT !.stack = SubSeq(@, 1, Len(@) - 1)]
    IN [th |-> Deliver(below, FrameNames(below), Text(objs[f.o].cls, f.items)),
        running |-> running \ {ReprKey(f.k, f.o, t)}]

\* an exception leaves every frame of the thread, each wrapper discarding its
\* key on the way
Unwind(th, running, t, exc) ==
    [th |-> [th EXCEPT !.stack = <<>>, !.res = exc],
     running |-> running \ {ReprKey(th.stack[j].k, th.stack[j].o, t) :
                               j \in 1..Len(th.stack)}]

\* the next part of the f-string of the top frame: {self.name!r}
Field_(th, running, t) ==
    LET f == th.stack[Len(th.stack)]
        value == GetAttr(objs[f.o], gen[f.k].repr[f.at])
    IN IF value = AttributeError THEN Unwind(th, running, t, AttributeError)
       ELSE IF value.t = "ref" /\ Kind(objs[value.v].cls, "__repr__") = "gen"
       THEN Enter(th, running, value.v, t)
       ELSE [th |-> Deliver(th, gen[f.k].repr, value), running |-> running]

ReprMoved(t, r) ==
    /\ threads' = IF t > Len(threads) THEN Append(threads, r.th)
                  ELSE [threads EXCEPT ![t] = r.th]
    /\ repr_running' = r.running
    /\ UNCHANGED <<annos, cattrs, user, cdict, derive, heap, COMPILED, dataf, gen,
                   status, objs, calls, last, vparams, TYPE_VALIDATORS>>

\* a new thread t calls repr(objs[i])
ReprCall(t, i) ==
    /\ t = Len(threads) + 1
    /\ i \in 1..Len(objs)
    /\ Kind(objs[i].cls, "__repr__") = "gen"
    /\ ReprMoved(t, Enter([call |-> i, stack |-> <<>>, res |-> NoResult],
                          repr_running, i, t))

\* thread t runs on to its next field or return
ReprStep(t) ==
    /\ t <= Len(threads)
    /\ threads[t].stack # <<>>
    /\ ReprMoved(t,
          IF threads[t].stack[Len(threads[t].stack)].at
                > Len(gen[threads[t].stack[Len(threads[t].stack)].k].repr)
          THEN Leave(threads[t], repr_running, t)
          ELSE Field_(threads[t], repr_running, t))

InitRepr ==
    \E y \in {Req, NoRepr} :
        InitWith(<<[name |-> "a", line |-> Req], [name |-> "b", line |-> y]>>,
                 <<>>, {}, {})

NextRepr ==
    \/ Decorate("P", DefaultCfg)
    \/ threads = <<>> /\ Construct("P", <<IntV(1), IntV(1)>>, <<>>)
    \/ \E i \in 1..MaxObjs, j \in 1..MaxObjs :
          /\ threads = <<>> /\ j <= Len(objs) /\ i <= Len(objs)
          /\ objs[i].attrs["a"].t # "ref"
          /\ SetAttr(i, "a", RefV(j))
    \/ \E t \in ReprThreads, i \in 1..MaxObjs :
          \* the instances are alike: the first call is on the first of them
          (threads = <<>> => i = 1) /\ ReprCall(t, i)
    \/ \E t \in ReprThreads : ReprStep(t)

\* a thread in a call is scheduled again
SpecRepr ==
    InitRepr /\ [][NextRepr]_vars /\ \A t \in ReprThreads : WF_vars(ReprStep(t))

\* the text the claim describes for repr(objs[i]), entered from the
\* instances of seen: the repr-flagged fields of the resolved list in order,
\* an instance met again printed as the fill value
RECURSIVE Render(_, _)
Render(i, seen) ==
    IF i \in seen THEN Ellipsis
    ELSE LET names == NamesWhere(dataf[objs[i].cls].fields, LAMBDA f : f.repr)
         IN Text(objs[i].cls,
                 [j \in 1..Len(names) |->
                     [name |-> names[j],
                      val  |-> IF objs[i].attrs[names[j]].t = "ref"
                               THEN Render(objs[i].attrs[names[j]].v, seen \cup {i})
                               ELSE objs[i].attrs[names[j]]]])

InRepr(t) == t <= Len(threads) /\ threads[t].stack # <<>>

Returned(t) == t <= Len(threads) /\ threads[t].stack = <<>>

\* C27: a call of the generated __repr__ returns, also on an instance that a
\* printed field holds again, directly or through other instances; what it
\* returns is the class name and the repr-flagged fields in resolved order,
\* the instance met again printed as '...'; and the text a thread gets does
\* not depend on the calls running in another thread.
C27_ReprTerminates ==
    /\ [](\A t \in ReprThreads :
            Returned(t) => threads[t].res = Render(threads[t].call, {}))
    /\ \A t \in ReprThreads : InRepr(t) ~> Returned(t)

\* thread 2 has returned from repr of the instance 1, whose field a holds the
\* instance 2 whose field a holds the instance 1 again, with '...' at that
\* place, while thread 1 is still in its repr of the same instance
C27_Witness ==
    /\ Len(objs) = 2 /\ Returned(2) /\ InRepr(1)
    /\ threads[1].call = 1 /\ threads[2].call = 1
    /\ objs[1].attrs["a"] = RefV(2) /\ objs[2].attrs["a"] = RefV(1)
    /\ threads[2].res.items[1].val.items[1].val = Ellipsis
    /\ ReprKey("P", 1, 1) \in repr_running

-----------------------------------------------------------------------------
(* Multiple inheritance: class A, class B, class D(A, B), each body empty or *)
(* one line on the name a or b, a field with or without default or a        *)
(* ClassVar; A and B are left plain or decorated, D is decorated with and    *)
(* without ancestor scanning                                                 *)

DiamondLines == {Req, Dflt, ClsVar}

DiamondBodies == {<<>>} \cup {<<[name |-> n, line |-> t]>> : n \in Names, t \in DiamondLines}

DiamondCfgs == {[DefaultCfg EXCEPT !.recurse = r] : r \in BOOLEAN}

InitDiamond ==
    \E bodyA \in DiamondBodies, bodyB \in DiamondBodies, bodyD \in DiamondBodies :
        InitOver([c \in {"A", "B", "D"} |->
                     IF c = "A" THEN bodyA ELSE IF c = "B" THEN bodyB ELSE bodyD],
                 <<>>)

NextDiamond ==
    \/ Decorate("A", DefaultCfg)
    \/ Decorate("B", DefaultCfg)
    \/ \E cfg \in DiamondCfgs : Decorate("D", cfg)

SpecDiamond == InitDiamond /\ [][NextDiamond]_vars

\* the names a class body annotates as fields
AnnotatedFields(cls) ==
    {annos[cls][i].name : i \in {j \in 1..Len(annos[cls]) :
                                    annos[cls][j].anno # "ClassVar"}}

\* the names that a class of the MRO of cls declares as a field and that no
\* class of it annotates ClassVar
Declared(cls) ==
    {n \in Names :
        /\ \E i \in 1..Len(Mro(cls)) : n \in AnnotatedFields(Mro(cls)[i])
        /\ \A i \in 1..Len(Mro(cls)) : n \notin ClassVarNames(Mro(cls)[i])}

ResolvedNames(cls) == {dataf[cls].fields[i].name : i \in 1..Len(dataf[cls].fields)}

\* C28: the resolved list of a class decorated with ancestor scanning has an
\* entry for every name that a class of its MRO declares as a field and none
\* annotates ClassVar, two bases with fields of their own included.
C28_NoAncestorDropped ==
    \A c \in DOMAIN status :
        (status[c].st = "ok" /\ status[c].cfg.recurse) => Declared(c) \subseteq ResolvedNames(c)

-----------------------------------------------------------------------------
(* Whole-record frozen classes and inherited fields, on the operations of    *)
(* SpecGuards                                                                *)

\* C29: an attribute set or delete on an instance of a class decorated
\* frozen=True, naming a field of the class's resolved list, a field
\* inherited from a decorated ancestor that is not frozen included, raises
\* FrozenInstanceError and leaves the instance as it was.
C29_FrozenProtectsInherited ==
    (/\ last.op \in {"set", "del"}
     /\ status[last.cls].st = "ok" /\ status[last.cls].cfg.frozen
     /\ last.n \in ResolvedNames(last.cls))
        => (last.res = "FrozenInstanceError" /\ ~last.changed)

-----------------------------------------------------------------------------
(* The generated constructor under the guards, on the operations of          *)
(* SpecGuards                                                                *)

\* C30: a call of the generated constructor of a decorated class with one
\* valid argument for each field returns an instance holding every field of
\* the resolved list with its argument; it does not raise, also when the
\* class is not frozen and inherits from a frozen ancestor or mixes frozen
\* and non-frozen fields.
C30_ConstructorNotBlocked ==
    (last.op = "new" /\ Kind(last.cls, "__init__") = "gen") =>
        /\ last.res = "ok"
        /\ \A i \in 1..Len(dataf[last.cls].fields) :
              /\ dataf[last.cls].fields[i].name \in DOMAIN objs[last.o].attrs
              /\ objs[last.o].attrs[dataf[last.cls].fields[i].name] = IntV(1)

====
